---- MODULE Spec2Model ----
(***************************************************************************)
(* Model of the quality-metrics service (class MetricsService) and of the  *)
(* HTTP routes that call it.                                               *)
(*                                                                         *)
(* Time is in milliseconds, as Date.now() gives it.  A JavaScript string   *)
(* is a sequence of one-character strings; an absent or empty string (both *)
(* falsy in JavaScript) is the empty sequence.  An absent number is -1, an *)
(* absent timestamp 0 (falsy, as the code tests it).                       *)
(***************************************************************************)
EXTENDS Integers, Sequences, FiniteSets, Bags, TLC

\* ---------------------------------------------------------------- bounds
\* Requests that arrive in one behaviour.
NumReqs == 2
\* Clock advances in one behaviour.
MaxTicks == 2
\* Files that can be added to the result store in one behaviour.
MaxFiles == 1
\* Files in the store when loadValidationResults is checked on its own.
MaxLoadFiles == 3
\* Results handed to the calculators when they are checked on their own.
MaxCalcResults == 3
\* Results handed to calculateOverviewMetrics when it is checked on its own,
\* and the results whose status is then changed one after the other.
MaxOverviewResults == 10
MaxReclassified == 2
\* Results and timeframes when calculateTrendMetrics is checked on its own.
MaxBucketResults == 2
MaxTimeframe == 21
\* Results of one project when calculateComparativeMetrics is checked on its
\* own.
MaxProjectResults == 6
\* Results handed to calculatePerformanceMetrics when it is checked on its own.
MaxPerformanceResults == 3
\* Requests to the routes GET /patterns and GET /export.
MaxRouteCalls == 2
\* Results on either side of the cutoff when calculateHealthMetrics is checked
\* on its own.
MaxHealthWindow == 6
\* Results on either side of the cutoff when calculateTrend is checked on its
\* own.
MaxWindow == 8
\* Results, each using the pattern p1 once, and the failures among them when
\* calculatePatternMetrics is checked on its own.
MaxPatternUses == 20
MaxPatternFailures == 1
\* Patterns, each used in one to four results, when the rankings of
\* calculatePatternMetrics are checked.
MaxRankedPatterns == 22

\* ------------------------------------------------------- program constants
\* this.cacheTimeout = 5 * 60 * 1000
cacheTimeout == 5 * 60 * 1000
\* 24 * 60 * 60 * 1000, the milliseconds of one day
DayMs == 24 * 60 * 60 * 1000
\* Date.now() when the service is constructed (an arbitrary instant).
StartTime == 20 * DayMs

\* ---------------------------------------------------------------- strings
GlobalName == <<"g", "l", "o", "b", "a", "l">>
UnknownName == <<"u", "n", "k", "n", "o", "w", "n">>
NoString == <<>>
NoNumber == -1
NoTimestamp == 0

\* String.prototype.toLowerCase on the alphabet the model uses.
ToLowerChar(c) ==
    CASE c = "A" -> "a"
      [] c = "B" -> "b"
      [] c = "G" -> "g"
      [] c = "L" -> "l"
      [] OTHER -> c

ToLowerCase(s) == [i \in 1..Len(s) |-> ToLowerChar(s[i])]

\* String.prototype.includes
Includes(hay, needle) ==
    \E off \in 0..(Len(hay) - Len(needle)) :
        \A i \in 1..Len(needle) : hay[off + i] = needle[i]

\* x || y on strings
OrElse(x, y) == IF x = NoString THEN y ELSE x

\* ------------------------------------------------------------- arithmetic
\* Mutant of RoundDiv: Math.floor in the place of Math.round.
FloorDiv(p, q) == p \div q

\* Math.round(p / q) for p >= 0, q > 0
RoundDiv(p, q) == (2 * p + q) \div (2 * q)

Max2(a, b) == IF a >= b THEN a ELSE b

RECURSIVE SumSeq(_)
SumSeq(s) == IF s = <<>> THEN 0 ELSE Head(s) + SumSeq(Tail(s))

\* Array.prototype.filter
FilterSeq(s, Test(_)) ==
    LET F[i \in 0..Len(s)] ==
            IF i = 0 THEN <<>>
            ELSE IF Test(s[i]) THEN Append(F[i - 1], s[i]) ELSE F[i - 1]
    IN F[Len(s)]

\* Array.prototype.slice(-n); slice(-0) is slice(0), the whole array
LastN(s, n) ==
    IF n = 0 \/ Len(s) <= n THEN s ELSE SubSeq(s, Len(s) - n + 1, Len(s))

\* Array.prototype.slice(0, n)
FirstN(s, n) == IF Len(s) <= n THEN s ELSE SubSeq(s, 1, n)

\* Array.prototype.sort with a comparator (stable): each element is inserted
\* after the elements already placed that do not compare greater than it.
InsertSorted(x, s, Cmp(_, _)) ==
    LET k == Cardinality({i \in 1..Len(s) : Cmp(s[i], x) <= 0})
    IN SubSeq(s, 1, k) \o <<x>> \o SubSeq(s, k + 1, Len(s))

SortBy(s, Cmp(_, _)) ==
    LET S[i \in 0..Len(s)] ==
            IF i = 0 THEN <<>> ELSE InsertSorted(s[i], S[i - 1], Cmp)
    IN S[Len(s)]

\* ------------------------------------------------------ the result store
\* A file of the validation-results directory: its name ends in .json or
\* not, its content parses or not, and its modification time.
MkFile(isJson, parses, mtime, data) ==
    [isJson |-> isJson, parses |-> parses, mtime |-> mtime, data |-> data]

\* A validation result as readJson returns it.  totalTests is the older name
\* of testCount that calculatePerformanceMetrics also accepts.
MkRecord(id, project, timestamp, status, executionTime, testCount, patterns) ==
    [id |-> id, project |-> project, timestamp |-> timestamp, status |-> status,
     executionTime |-> executionTime, testCount |-> testCount,
     totalTests |-> NoNumber, patterns |-> patterns]

\* One entry of a record's patterns array; an absent name, type or scope is "".
MkPattern(name, type, scope, confidence) ==
    [name |-> name, type |-> type, scope |-> scope, confidence |-> confidence]

\* if (!data.timestamp) data.timestamp = fileStats.mtime
EnsureTimestamp(f) ==
    IF f.data.timestamp = NoTimestamp
    THEN [f.data EXCEPT !.timestamp = f.mtime]
    ELSE f.data

\* Mutant of PassesFilters: the project compared without toLowerCase.
PassesFiltersCaseSensitive(data, projectName, cutoffDate) ==
    /\ ~(cutoffDate # 0 /\ data.timestamp < cutoffDate)
    /\ ~(projectName # NoString
         /\ (data.project = NoString \/ ~Includes(data.project, projectName)))

\* The filters of loadValidationResults: true when the record is kept.
\* cutoffDate is 0 for null.
PassesFilters(data, projectName, cutoffDate) ==
    /\ ~(cutoffDate # 0 /\ data.timestamp < cutoffDate)
    /\ ~(projectName # NoString
         /\ (data.project = NoString
             \/ ~Includes(ToLowerCase(data.project), ToLowerCase(projectName))))

ByTimestamp(a, b) == a.timestamp - b.timestamp

\* The body of loadValidationResults once readdir has listed `files`: the
\* for loop with its try/catch, then the sort.
RECURSIVE LoadLoop(_, _, _)
LoadLoop(files, projectName, cutoffDate) ==
    IF files = <<>> THEN <<>>
    ELSE LET f == Head(files)
             rest == LoadLoop(Tail(files), projectName, cutoffDate)
         IN IF ~f.isJson THEN rest
            ELSE IF ~f.parses THEN rest
            ELSE IF PassesFilters(EnsureTimestamp(f), projectName, cutoffDate)
                 THEN <<EnsureTimestamp(f)>> \o rest
                 ELSE rest

loadValidationResults(files, projectName, cutoffDate) ==
    SortBy(LoadLoop(files, projectName, cutoffDate), ByTimestamp)

\* ------------------------------------------------------------ calculators
IsSuccess(r) == r.status = "success"
IsFailure(r) == r.status = "failure"
IsWarning(r) == r.status = "warning"

CountOf(s, Test(_)) == Len(FilterSeq(s, Test))

\* JavaScript numbers are IEEE-754 doubles, of 53 significant binary digits.
\* A double x that is 0 or lies between 2^-6 and 1 is a multiple of 2^-58: it
\* is held as the sequence of the 59 binary digits of x * 2^58, the most
\* significant first (the first digit counts 1, the second 1/2, ...).
SignificantDigits == 53
FixedDigits == 59
\* Digits of a quotient worked out before it is rounded.
QuotientWorkDigits == 65

FirstOne(x) ==
    CHOOSE i \in 1..Len(x) : x[i] = 1 /\ \A j \in 1..(i - 1) : x[j] = 0

\* x with one unit added at digit k.
AddOneAt(x, k) ==
    LET CarryIn(i) == IF \A j \in (i + 1)..k : x[j] = 1 THEN 1 ELSE 0
    IN [i \in 1..Len(x) |-> IF i > k THEN x[i] ELSE (x[i] + CarryIn(i)) % 2]

\* x with the digits after digit last cleared.
Truncate(x, last) == [i \in 1..Len(x) |-> IF i <= last THEN x[i] ELSE 0]

\* The digits x, followed by more digits that are not all zero when sticky,
\* rounded at digit last: to nearest, ties to even.
RoundAt(x, last, sticky) ==
    IF last >= Len(x) THEN x
    ELSE IF /\ x[last + 1] = 1
            /\ \/ sticky
               \/ x[last] = 1
               \/ \E i \in (last + 2)..Len(x) : x[i] = 1
    THEN AddOneAt(Truncate(x, last), last)
    ELSE Truncate(x, last)

\* The double nearest to that number.
RoundToDouble(x, sticky) ==
    IF \A i \in 1..Len(x) : x[i] = 0 THEN x
    ELSE RoundAt(x, FirstOne(x) + SignificantDigits - 1, sticky)

\* The remainder left by the long division of a by n after its digit i:
\* (a * 2^(i - 1)) % n, the power taken in steps of 16 digits to stay within
\* 32 bits (0 <= a <= n <= 64).
RemainderAt(a, n, i) ==
    LET high == IF i <= 16 THEN 1 ELSE ((65536 % n) ^ ((i - 1) \div 16)) % n
        low == (2 ^ ((i - 1) % 16)) % n
    IN (a * ((high * low) % n)) % n

\* The double a / n for integers 0 <= a <= n, n <= 64, by long division.
DoubleOfQuotient(a, n) ==
    SubSeq(RoundToDouble([i \in 1..QuotientWorkDigits |->
                             IF i = 1 THEN a \div n
                             ELSE (2 * RemainderAt(a, n, i - 1)) \div n],
                         RemainderAt(a, n, QuotientWorkDigits) # 0),
           1, FixedDigits)

\* x < y
LessDigits(x, y) ==
    \E i \in 1..Len(x) : x[i] < y[i] /\ \A j \in 1..(i - 1) : x[j] = y[j]

\* The digits of x - y for x >= y.
SubtractDigits(x, y) ==
    [i \in 1..Len(x) |->
        (x[i] - y[i]
         - (IF \E j \in (i + 1)..Len(x) :
                   x[j] < y[j] /\ \A m \in (i + 1)..(j - 1) : x[m] = y[m]
            THEN 1 ELSE 0)
         + 2) % 2]

\* x - y > threshold for doubles x >= y: the difference of two doubles is
\* rounded to a double.
Exceeds(x, y, threshold) ==
    LessDigits(threshold, RoundToDouble(SubtractDigits(x, y), FALSE))

\* difference > 0.05, difference < -0.05
TrendOfDoubles(recentSuccessRate, previousSuccessRate, threshold) ==
    IF LessDigits(recentSuccessRate, previousSuccessRate)
    THEN (IF Exceeds(previousSuccessRate, recentSuccessRate, threshold)
          THEN "declining" ELSE "stable")
    ELSE (IF Exceeds(recentSuccessRate, previousSuccessRate, threshold)
          THEN "improving" ELSE "stable")

\* The comparison of calculateTrend: the success rates rs / rn and ps / pn
\* and the literal 0.05 as doubles.
TrendOfRates(rs, rn, ps, pn) ==
    LET double == [k \in 1..3 |-> DoubleOfQuotient(<<rs, ps, 1>>[k], <<rn, pn, 20>>[k])]
    IN TrendOfDoubles(double[1], double[2], double[3])

\* The digits first..last of x read as a binary number.
DigitsValue(x, first, last) ==
    SumSeq([i \in 1..(last - first + 1) |-> x[first + i - 1] * 2 ^ (last - first + 1 - i)])

\* The 65 digits (the first counts 64) of the number whose three limbs of 20
\* digits, the most significant first, hold p1, p2 and p3 before their
\* carries are passed on.
DigitsOfLimbs(p1, p2, p3) ==
    [i \in 1..65 |->
        IF i > 45 THEN ((p3 % 1048576) \div 2 ^ (65 - i)) % 2
        ELSE IF i > 25
             THEN (((p2 + p3 \div 1048576) % 1048576) \div 2 ^ (45 - i)) % 2
             ELSE ((p1 + (p2 + p3 \div 1048576) \div 1048576) \div 2 ^ (25 - i)) % 2]

\* x * 100 for a double 0 <= x <= 1, before it is rounded to a double.
TimesHundred(x) ==
    DigitsOfLimbs(DigitsValue(x, 1, 19) * 100, DigitsValue(x, 20, 39) * 100,
                  DigitsValue(x, 40, 59) * 100)

\* Math.round(y) for the 65 digits of a double 0 <= y <= 100: the integer
\* part, and one more when the digit that counts 1/2 is set.
MathRound(y) == DigitsValue(y, 1, 7) + y[8]

\* Math.round(((halves * 0.5) / total) * 100) for 0 <= halves <= 2 * total and
\* total <= 32: halves * 0.5 is exact, the quotient and the product are each
\* rounded to a double.  The double differs from the exact 50 * halves / total
\* by less than 2^-45 and that number, when it is not an integer and a half,
\* lies at least 1 / 64 from the next integer and a half: the digits are
\* worked out only for a number that is an integer and a half.
RoundedPercent(halves, total) ==
    IF (100 * halves) % total = 0 /\ ((100 * halves) \div total) % 2 = 1
    THEN MathRound(RoundToDouble(
             TimesHundred(DoubleOfQuotient(halves, 2 * total)), FALSE))
    ELSE RoundDiv(50 * halves, total)

\* Math.round((x / total) * 100) for each x of halves * 0.5.
Percents(halves, total) ==
    [k \in 1..Len(halves) |-> RoundedPercent(halves[k], total)]

\* calculateTrend(results, days) at Date.now() = nowMs.

calculateTrend(results, days, nowMs) ==
    IF Len(results) < 10 THEN "stable"
    ELSE LET cutoff == nowMs - days * DayMs
             IsRecent(r) == r.timestamp >= cutoff
             IsOld(r) == r.timestamp < cutoff
             recent == FilterSeq(results, IsRecent)
             previous == LastN(FilterSeq(results, IsOld), Len(recent))
         IN IF Len(recent) < 5 \/ Len(previous) < 5 THEN "stable"
            ELSE TrendOfRates(CountOf(recent, IsSuccess), Len(recent),
                              CountOf(previous, IsSuccess), Len(previous))

\* The object calculateOverviewMetrics returns for no results.
EmptyOverview ==
    [totalValidations |-> 0, successRate |-> 0, failureRate |-> 0,
     warningRate |-> 0, qualityScore |-> 0, trend |-> "stable"]

\* Mutant of calculateOverviewMetrics: the warnings subtracted from the
\* quality score instead of added.
calculateOverviewMetricsWarningsSubtracted(results, nowMs) ==
    LET total == Len(results)
        successful == CountOf(results, IsSuccess)
        failed == CountOf(results, IsFailure)
        warnings == CountOf(results, IsWarning)
    IN IF total = 0 THEN EmptyOverview
       ELSE [totalValidations |-> total,
             successRate |-> RoundDiv(successful * 100, total),
             failureRate |-> RoundDiv(failed * 100, total),
             warningRate |-> RoundDiv(warnings * 100, total),
             qualityScore |-> RoundDiv(Max2(0, 2 * successful - warnings) * 50, total),
             trend |-> calculateTrend(results, 7, nowMs),
             breakdown |-> [successful |-> successful, failed |-> failed,
                            warnings |-> warnings]]

\* The object calculateOverviewMetrics returns, the four percentages added.
WithRates(counts, percent) ==
    counts @@ [successRate |-> percent[1], failureRate |-> percent[2],
               warningRate |-> percent[3], qualityScore |-> percent[4]]

calculateOverviewMetrics(results, nowMs) ==
    LET total == Len(results)
        successful == CountOf(results, IsSuccess)
        failed == CountOf(results, IsFailure)
        warnings == CountOf(results, IsWarning)
    IN IF total = 0 THEN EmptyOverview
       ELSE WithRates(
                [totalValidations |-> total,
                 trend |-> calculateTrend(results, 7, nowMs),
                 breakdown |-> [successful |-> successful, failed |-> failed,
                                warnings |-> warnings]],
                \* Math.round((successful / total) * 100), ...,
                \* Math.round(((successful + warnings * 0.5) / total) * 100)
                Percents(<<2 * successful, 2 * failed, 2 * warnings,
                           2 * successful + warnings>>, total))

\* The execution times calculatePerformanceMetrics and calculateHealthMetrics
\* use: results.map(r => r.executionTime).filter(Boolean), which drops the
\* absent ones and the zeros.
Truthy(n) == n # NoNumber /\ n # 0

ExecutionTimes(results) ==
    FilterSeq([i \in 1..Len(results) |-> results[i].executionTime], Truthy)

\* r.testCount || r.totalTests, then filter(Boolean)
TestCounts(results) ==
    FilterSeq([i \in 1..Len(results) |->
                  IF Truthy(results[i].testCount) THEN results[i].testCount
                  ELSE results[i].totalTests], Truthy)

\* The names (p.name || p.type, "" when both are absent) the Set patternsUsed
\* of calculateHealthMetrics collects from the last 20 results.
PatternsUsed(results) ==
    LET recent == LastN(results, 20)
    IN UNION {{IF recent[i].patterns[j].name # "" THEN recent[i].patterns[j].name
               ELSE recent[i].patterns[j].type :
                   j \in 1..Len(recent[i].patterns)} : i \in 1..Len(recent)}

OverallOf(score) ==
    IF score < 60 THEN "poor"
    ELSE IF score < 75 THEN "fair"
    ELSE IF score < 90 THEN "good"
    ELSE "excellent"

\* Mutant of LowRateDeduction: twice the distance to 70.
LowRateDeductionDoubled(successRate) == 2 * (70 - successRate)

\* score -= (70 - successRate), taken when successRate < 70.
LowRateDeduction(successRate) == 70 - successRate

\* The part of calculateHealthMetrics after its guard for no results.
HealthOfResults(results, nowMs) ==
    LET n == Len(results)
        \* 0 / 0 is NaN, and NaN compares false with 70 and with 95
        isNaN == n = 0
        successRate == IF isNaN THEN 0
                       ELSE RoundDiv(CountOf(results, IsSuccess) * 100, n)
        low == ~isNaN /\ successRate < 70
        high == ~isNaN /\ ~low /\ successRate >= 95
        trend == calculateTrend(results, 7, nowMs)
        fewPatterns == Cardinality(PatternsUsed(results)) < 3 /\ n > 10
        times == ExecutionTimes(results)
        \* avgTime > 30000
        slow == Len(times) > 0 /\ SumSeq(times) > 30000 * Len(times)
        score == 100 - (IF low THEN LowRateDeduction(successRate) ELSE 0)
                     - (IF trend = "declining" THEN 15 ELSE 0)
                     - (IF fewPatterns THEN 5 ELSE 0)
                     - (IF slow THEN 10 ELSE 0)
        indicators ==
            (IF low THEN <<[type |-> "warning", message |-> "Low success rate",
                            value |-> successRate]>>
             ELSE IF high THEN <<[type |-> "success",
                                  message |-> "Excellent success rate",
                                  value |-> successRate]>>
             ELSE <<>>)
            \o (IF trend = "declining"
                THEN <<[type |-> "warning",
                        message |-> "Quality trend is declining", value |-> 0]>>
                ELSE IF trend = "improving"
                THEN <<[type |-> "success",
                        message |-> "Quality trend is improving", value |-> 0]>>
                ELSE <<>>)
            \o (IF fewPatterns
                THEN <<[type |-> "info",
                        message |-> "Limited pattern diversity detected",
                        value |-> 0]>>
                ELSE <<>>)
            \o (IF slow
                THEN <<[type |-> "warning",
                        message |-> "Slow average validation time", value |-> 0]>>
                ELSE <<>>)
        recommendations ==
            (IF low THEN <<"Review failing validation patterns and improve test quality">>
             ELSE <<>>)
            \o (IF trend = "declining"
                THEN <<"Investigate recent changes that may be affecting validation quality">>
                ELSE <<>>)
            \o (IF fewPatterns
                THEN <<"Consider expanding pattern library to improve validation coverage">>
                ELSE <<>>)
            \o (IF slow
                THEN <<"Optimize validation processes to improve performance">>
                ELSE <<>>)
    IN [overall |-> OverallOf(score), score |-> Max2(0, score),
        indicators |-> indicators, recommendations |-> recommendations,
        lastUpdate |-> nowMs]

\* The object calculateHealthMetrics returns for no results.
EmptyHealth ==
    [overall |-> "unknown", score |-> 0, indicators |-> <<>>,
     recommendations |-> <<"No validation data available">>]

\* Mutant of calculateHealthMetrics: the guard for no results left out.
calculateHealthMetricsUnguarded(results, nowMs) == HealthOfResults(results, nowMs)

calculateHealthMetrics(results, nowMs) ==
    IF Len(results) = 0 THEN EmptyHealth ELSE HealthOfResults(results, nowMs)

\* calculateTrendMetrics(results, timeframe) at Date.now() = nowMs: the loop
\* for (i = timeframe; i >= 0; i -= daysPerPeriod), oldest period first.
DaysPerPeriod(timeframe) == Max2(1, timeframe \div 10)

TrendPeriod(results, i, daysPerPeriod, nowMs) ==
    LET periodEnd == nowMs - i * DayMs
        periodStart == periodEnd - daysPerPeriod * DayMs
        InPeriod(r) == r.timestamp >= periodStart /\ r.timestamp < periodEnd
    IN [period |-> periodEnd \div DayMs,
        metrics |-> calculateOverviewMetrics(FilterSeq(results, InPeriod), nowMs),
        dateRange |-> [start |-> periodStart, end |-> periodEnd]]

RECURSIVE TrendLoop(_, _, _, _)
TrendLoop(results, i, daysPerPeriod, nowMs) ==
    IF i < 0 THEN <<>>
    ELSE <<TrendPeriod(results, i, daysPerPeriod, nowMs)>>
         \o TrendLoop(results, i - daysPerPeriod, daysPerPeriod, nowMs)

calculateTrendMetrics(results, timeframe, nowMs) ==
    TrendLoop(results, timeframe, DaysPerPeriod(timeframe), nowMs)

\* Math.round(a * b / d) for a, b >= 0 and 0 < d < 2^30, without forming a * b:
\* a * b = q * d + r by doubling.
RECURSIVE MulDivMod(_, _, _)
MulDivMod(a, b, d) ==
    IF a = 0 THEN <<0, 0>>
    ELSE LET h == MulDivMod(a \div 2, b, d)
             r2 == 2 * h[2] + (IF a % 2 = 1 THEN b ELSE 0)
         IN <<2 * h[1] + r2 \div d, r2 % d>>

RoundMulDiv(a, b, d) ==
    LET qr == MulDivMod(a, b, d)
    IN qr[1] + (IF 2 * qr[2] >= d THEN 1 ELSE 0)

MaxSeq(s) == CHOOSE x \in {s[i] : i \in 1..Len(s)} :
                 \A j \in 1..Len(s) : s[j] <= x
MinSeq(s) == CHOOSE x \in {s[i] : i \in 1..Len(s)} :
                 \A j \in 1..Len(s) : s[j] >= x

Ascending(a, b) == a - b

\* calculatePerformanceMetrics(results).  throughput is in hundredths of a
\* validation per hour (Math.round(x * 100) / 100).
calculatePerformanceMetrics(results) ==
    LET executionTimes == ExecutionTimes(results)
        testCounts == TestCounts(results)
        sorted == SortBy(executionTimes, Ascending)
        mid == Len(sorted) \div 2
        timeSpan == results[Len(results)].timestamp - results[1].timestamp
    IN [averageExecutionTime |->
            IF Len(executionTimes) > 0
            THEN RoundDiv(SumSeq(executionTimes), Len(executionTimes)) ELSE 0,
        medianExecutionTime |->
            IF Len(executionTimes) = 0 THEN 0
            ELSE IF Len(sorted) % 2 = 0
                 THEN RoundDiv(sorted[mid] + sorted[mid + 1], 2)
                 ELSE sorted[mid + 1],
        maxExecutionTime |->
            IF Len(executionTimes) > 0 THEN MaxSeq(executionTimes) ELSE 0,
        minExecutionTime |->
            IF Len(executionTimes) > 0 THEN MinSeq(executionTimes) ELSE 0,
        averageTestCount |->
            IF Len(testCounts) > 0
            THEN RoundDiv(SumSeq(testCounts), Len(testCounts)) ELSE 0,
        totalTestsExecuted |-> SumSeq(testCounts),
        throughput |->
            IF Len(results) > 1 /\ timeSpan > 0
            THEN RoundMulDiv(Len(results) * 100, 60 * 60 * 1000, timeSpan)
            ELSE 0]

\* pattern.name || pattern.type || 'unknown'
PatternKey(pattern) ==
    IF pattern.name # "" THEN pattern.name
    ELSE IF pattern.type # "" THEN pattern.type
    ELSE "unknown"

\* The pattern occurrences the two nested forEach of calculatePatternMetrics
\* visit, in order, each with the status of the result that owns it.
RECURSIVE PatternOccurrences(_)
PatternOccurrences(results) ==
    IF results = <<>> THEN <<>>
    ELSE LET r == Head(results)
         IN [j \in 1..Len(r.patterns) |->
                [key |-> PatternKey(r.patterns[j]), status |-> r.status,
                 confidence |-> Max2(r.patterns[j].confidence, 0),
                 scope |-> IF r.patterns[j].scope # "" THEN r.patterns[j].scope
                           ELSE "universal"]]
            \o PatternOccurrences(Tail(results))

\* The keys of the Map patternStats, in insertion order.
PatternKeys(occ) ==
    LET first == {i \in 1..Len(occ) :
                     \A j \in 1..(i - 1) : occ[j].key # occ[i].key}
    IN [k \in 1..Cardinality(first) |->
           occ[CHOOSE i \in first : Cardinality({j \in first : j <= i}) = k].key]

\* { ...stats, effectiveness, successRate }
WithEffectiveness(stats, percent) ==
    stats @@ [effectiveness |-> percent[1], successRate |-> percent[2]]

\* The statistics of one key with effectiveness and successRate added.  The
\* running average of the confidence is the sum over the usage; confidence
\* holds the two.
PatternStatsOf(key, occ) ==
    LET HasKey(o) == o.key = key
        mine == FilterSeq(occ, HasKey)
        usage == Len(mine)
        successes == CountOf(mine, IsSuccess)
        failures == CountOf(mine, IsFailure)
        warnings == CountOf(mine, IsWarning)
    IN WithEffectiveness(
           [name |-> key, usage |-> usage, successes |-> successes,
            failures |-> failures, warnings |-> warnings,
            confidence |-> [sum |-> SumSeq([i \in 1..usage |-> mine[i].confidence]),
                            over |-> usage],
            scope |-> mine[1].scope],
           \* ((successes + warnings * 0.5) / total) * 100, (successes / total) * 100
           Percents(<<2 * successes + warnings, 2 * successes>>, usage))

UsageDescending(a, b) == b.usage - a.usage
EffectivenessDescending(a, b) == b.effectiveness - a.effectiveness
EffectivenessAscending(a, b) == a.effectiveness - b.effectiveness
\* Mutant of UsedThrice: no floor on the usage.
UsedAtAll(p) == p.usage >= 1

\* p => p.usage >= 3
UsedThrice(p) == p.usage >= 3

\* The object getPatternLibraryStats starts from, and returns when no
\* library file exists.
NoLibraryStats ==
    [universal |-> 0, backend |-> 0, frontend |-> 0, total |-> 0]

\* calculatePatternMetrics(results), given what getPatternLibraryStats
\* returned.  Array.prototype.sort sorts patternMetrics in place, so each
\* ranking starts from the order the previous one left.
calculatePatternMetrics(results, libraryStats) ==
    LET occ == PatternOccurrences(results)
        keys == PatternKeys(occ)
        patternMetrics == [i \in 1..Len(keys) |-> PatternStatsOf(keys[i], occ)]
        byUsage == SortBy(patternMetrics, UsageDescending)
        byEffectiveness == SortBy(byUsage, EffectivenessDescending)
    IN [patternUsage |-> FirstN(byUsage, 20),
        mostEffective |-> FirstN(byEffectiveness, 10),
        leastEffective |->
            FirstN(SortBy(FilterSeq(byEffectiveness, UsedThrice),
                          EffectivenessAscending), 5),
        libraryStats |-> libraryStats,
        totalPatterns |-> Len(patternMetrics),
        averageEffectiveness |->
            IF Len(patternMetrics) > 0
            THEN RoundDiv(SumSeq([i \in 1..Len(patternMetrics) |->
                                     patternMetrics[i].effectiveness]),
                          Len(patternMetrics))
            ELSE 0]

\* currentProjectRank: null
NullRank == -1

\* The object calculateComparativeMetrics returns from its catch block.
EmptyComparative ==
    [projects |-> <<>>, totalProjects |-> 0, currentProjectRank |-> NullRank,
     industryAverage |-> [qualityScore |-> 0, successRate |-> 0]]

\* result.project || 'unknown'
ProjectOf(r) == OrElse(r.project, UnknownName)

\* The keys of the Map projectGroups, in insertion order.
ProjectNames(allResults) ==
    LET first == {i \in 1..Len(allResults) :
                     \A j \in 1..(i - 1) :
                         ProjectOf(allResults[j]) # ProjectOf(allResults[i])}
    IN [k \in 1..Cardinality(first) |->
           ProjectOf(allResults[CHOOSE i \in first :
                                    Cardinality({j \in first : j <= i}) = k])]

\* Mutant of QualityDescending: the comparator of an ascending sort.
QualityAscending(a, b) == a.qualityScore - b.qualityScore

QualityDescending(a, b) == b.qualityScore - a.qualityScore

\* comparisons.findIndex(c => c.project === currentProject), -1 when none
FindIndex(comparisons, currentProject) ==
    IF \E i \in 1..Len(comparisons) : comparisons[i].project = currentProject
    THEN (CHOOSE i \in 1..Len(comparisons) :
              /\ comparisons[i].project = currentProject
              /\ \A j \in 1..(i - 1) : comparisons[j].project # currentProject) - 1
    ELSE -1

\* The object calculateComparativeMetrics returns for the sorted comparisons.
ComparativeOf(comparisons, currentProject) ==
    [projects |-> comparisons,
     totalProjects |-> Len(comparisons),
     currentProjectRank |->
         IF currentProject # NoString
         THEN FindIndex(comparisons, currentProject) + 1 ELSE NullRank,
     industryAverage |->
         [qualityScore |->
              IF Len(comparisons) > 0
              THEN RoundDiv(SumSeq([i \in 1..Len(comparisons) |->
                                       comparisons[i].qualityScore]),
                            Len(comparisons))
              ELSE 0,
          successRate |->
              IF Len(comparisons) > 0
              THEN RoundDiv(SumSeq([i \in 1..Len(comparisons) |->
                                       comparisons[i].successRate]),
                            Len(comparisons))
              ELSE 0]]

\* The entry of comparisons for the results of one project: { project,
\* isCurrent, ...overview, averageExecutionTime, totalTestsExecuted,
\* lastValidation }.
ComparisonOf(name, results, currentProject, overview, performance) ==
    [project |-> name, isCurrent |-> name = currentProject,
     averageExecutionTime |-> performance.averageExecutionTime,
     totalTestsExecuted |-> performance.totalTestsExecuted,
     lastValidation |-> results[Len(results)].timestamp]
    @@ overview

\* calculateComparativeMetrics(currentResults, currentProject), given the
\* results its own loadValidationResults() returned.
calculateComparativeMetrics(allResults, currentProject, nowMs) ==
    LET GroupOf(name) == LET InGroup(r) == ProjectOf(r) = name
                         IN FilterSeq(allResults, InGroup)
        BigEnough(name) == Len(GroupOf(name)) >= 5
        ranked == FilterSeq(ProjectNames(allResults), BigEnough)
    IN ComparativeOf(
           SortBy([i \in 1..Len(ranked) |->
                      ComparisonOf(ranked[i], GroupOf(ranked[i]), currentProject,
                          calculateOverviewMetrics(GroupOf(ranked[i]), nowMs),
                          calculatePerformanceMetrics(GroupOf(ranked[i])))],
                  QualityDescending),
           currentProject)

\* ------------------------------------------------- the service and routes
VARIABLES
    now,            \* Date.now()
    ticks,          \* clock advances so far
    files,          \* the validation-results directory, in readdir order
    readable,       \* whether ensureDir and readdir of that directory succeed
    metricsCache,   \* this.metricsCache: cache key -> [data, timestamp]
    started,        \* calls of calculateQualityMetrics so far
    inflight,       \* the calls suspended at an await: a bag of their frames
    response        \* what the step just taken has returned to its caller, if
                    \* anything

vars == <<now, ticks, files, readable, metricsCache, started, inflight, response>>

\* A project name of the store, and the (project, timeframe) query
\* parameters a request may carry: no project, a project named 'global', and
\* a project name in another case with another timeframe.
ProjectAl == <<"A", "l">>
ReqArgs == {<<NoString, 2>>, <<GlobalName, 2>>, <<<<"a", "l">>, 1>>}

\* The i-th file written to the store.
FileAt(i) ==
    CASE i % 4 = 1 ->
           MkFile(TRUE, TRUE, StartTime - (60 * 60 * 1000),
                  MkRecord(i, ProjectAl, StartTime - (60 * 60 * 1000), "success",
                           1200, 10, <<MkPattern("p1", "", "backend", 90)>>))
      [] i % 4 = 2 ->
           MkFile(TRUE, TRUE, StartTime - (36 * 60 * 60 * 1000),
                  MkRecord(i, NoString, NoTimestamp, "failure",
                           NoNumber, NoNumber, <<>>))
      [] i % 4 = 3 -> MkFile(TRUE, FALSE, StartTime, <<>>)
      [] OTHER -> MkFile(FALSE, TRUE, StartTime, <<>>)

\* What getPatternLibraryStats returns for the pattern libraries installed.
LibraryStats == [universal |-> 2, backend |-> 1, frontend |-> 1, total |-> 4]

\* Mutant of CacheKey: the project left out of the key.
CacheKeyWithoutProject(projectName, timeframe) == <<GlobalName, timeframe>>

\* `quality-${projectName || 'global'}-${timeframe}`: the two parts that vary.
CacheKey(projectName, timeframe) == <<OrElse(projectName, GlobalName), timeframe>>

\* getCacheStats()
getCacheStats(cache) ==
    [size |-> Cardinality(DOMAIN cache), keys |-> DOMAIN cache]

\* Map.prototype.set
MapSet(cache, key, value) ==
    [k \in DOMAIN cache \cup {key} |-> IF k = key THEN value ELSE cache[k]]

EmptyMap == [k \in {} |-> 0]

NoResponse == [kind |-> "none"]

\* The frame of a call that has reached its first await.
NewFrame(project, timeframe, nowMs) ==
    [pc |-> "loading", project |-> project, timeframe |-> timeframe,
     \* new Date(Date.now() - (timeframe * 24 * 60 * 60 * 1000))
     cutoffDate |-> nowMs - timeframe * DayMs,
     results |-> <<>>, partial |-> <<>>,
     \* calls of loadValidationResults and of getPatternLibraryStats begun,
     \* calculators run
     loads |-> 1, catalogReads |-> 0, calcs |-> 0]

Frames == BagToSet(inflight)

Resume(old, new) == (inflight (-) SetToBag({old})) (+) SetToBag({new})

Init ==
    /\ now = StartTime
    /\ ticks = 0
    /\ files = <<>>
    /\ readable = TRUE
    /\ metricsCache = EmptyMap
    /\ started = 0
    /\ inflight = EmptyBag
    /\ response = NoResponse

\* The clock is observed at the instants that matter to an entry cached at
\* StartTime: one millisecond short of cacheTimeout later, then every
\* millisecond.
TickDelta(k) == IF k = 1 THEN cacheTimeout - 1 ELSE 1

\* Time passes.
Tick ==
    /\ ticks < MaxTicks
    \* the clock is read again only while every suspended call awaits its
    \* record load
    /\ \A f \in Frames : f.pc = "loading"
    /\ now' = now + TickDelta(ticks + 1)
    /\ ticks' = ticks + 1
    /\ response' = NoResponse
    /\ UNCHANGED <<files, readable, metricsCache, started, inflight>>

\* No suspended call awaits getPatternLibraryStats.  That read takes nothing
\* from the cache, the clock or the results directory and changes none of
\* them, so a step taken while it is pending leads to the state the same step
\* leads to once it has settled: the model lets it settle first.
CatalogReadSettled == \A f \in Frames : f.pc # "patterns"

\* A validation run writes its result file (outside this service).
AddFile ==
    /\ Len(files) < MaxFiles
    /\ CatalogReadSettled
    /\ files' = Append(files, FileAt(Len(files) + 1))
    /\ response' = NoResponse
    /\ UNCHANGED <<now, ticks, readable, metricsCache, started, inflight>>

\* The directory becomes unreadable (permissions, file descriptors, a failing
\* disk), or readable again.
StoreFault ==
    /\ CatalogReadSettled
    /\ readable' = ~readable
    /\ response' = NoResponse
    /\ UNCHANGED <<now, ticks, files, metricsCache, started, inflight>>

\* Mutants of CacheFresh: the comparison turned round, and the boundary
\* included.
CacheFreshInverted(cache, key, nowMs) ==
    /\ key \in DOMAIN cache
    /\ nowMs - cache[key].timestamp > cacheTimeout

CacheFreshInclusive(cache, key, nowMs) ==
    /\ key \in DOMAIN cache
    /\ nowMs - cache[key].timestamp <= cacheTimeout

\* The test of calculateQualityMetrics for serving from the cache.
CacheFresh(cache, key, nowMs) ==
    /\ key \in DOMAIN cache
    /\ nowMs - cache[key].timestamp < cacheTimeout

\* What calculateQualityMetrics resolves with, and what it rejects with.
Returned(project, timeframe, metrics, fromCache) ==
    [kind |-> "metrics", project |-> project, timeframe |-> timeframe,
     metrics |-> metrics, fromCache |-> fromCache]

Thrown(project, timeframe) ==
    [kind |-> "error", project |-> project, timeframe |-> timeframe,
     message |-> "Failed to calculate quality metrics"]

\* A route calls calculateQualityMetrics(project, parseInt(timeframe)): the
\* code up to the return of the cached data, or up to the first await.
Request ==
    /\ started < NumReqs
    /\ CatalogReadSettled
    /\ started' = started + 1
    /\ \E args \in ReqArgs :
         LET key == CacheKey(args[1], args[2])
         IN IF CacheFresh(metricsCache, key, now)
            THEN /\ response' = Returned(args[1], args[2],
                                         metricsCache[key].data, TRUE)
                 /\ UNCHANGED inflight
            ELSE /\ inflight' = inflight (+) SetToBag({NewFrame(args[1], args[2], now)})
                 /\ response' = NoResponse
    /\ UNCHANGED <<now, ticks, files, readable, metricsCache>>

\* Mutant of LoadFailed: an unreadable directory read as an empty one.
LoadFailedAsEmpty ==
    /\ ~readable
    /\ CatalogReadSettled
    /\ \E f \in Frames :
         /\ f.pc = "loading"
         /\ inflight' = Resume(f,
                 [f EXCEPT !.pc = "patterns",
                           !.partial = [overview |-> EmptyOverview,
                                        trends |-> calculateTrendMetrics(
                                                       <<>>, f.timeframe, now)],
                           !.calcs = 2, !.catalogReads = 1])
    /\ response' = NoResponse
    /\ UNCHANGED <<now, ticks, files, readable, metricsCache, started>>

\* Mutant of LoadFailed: the failing call also deletes the entry of its key.
LoadFailedDroppingEntry ==
    /\ ~readable
    /\ CatalogReadSettled
    /\ \E f \in Frames :
         /\ f.pc = "loading"
         /\ inflight' = inflight (-) SetToBag({f})
         /\ response' = Thrown(f.project, f.timeframe)
         /\ metricsCache' =
                [k \in DOMAIN metricsCache \ {CacheKey(f.project, f.timeframe)} |->
                    metricsCache[k]]
    /\ UNCHANGED <<now, ticks, files, readable, started>>

\* await this.loadValidationResults(projectName, cutoffDate) rejects, because
\* ensureDir or readdir does: the catch block rethrows.
LoadFailed ==
    /\ ~readable
    /\ CatalogReadSettled
    /\ \E f \in Frames :
         /\ f.pc = "loading"
         /\ inflight' = inflight (-) SetToBag({f})
         /\ response' = Thrown(f.project, f.timeframe)
    /\ UNCHANGED <<now, ticks, files, readable, metricsCache, started>>

\* await this.loadValidationResults(projectName, cutoffDate) resolves:
\* overview and trends are computed and calculatePatternMetrics runs up to
\* its await.
AfterLoad(f, results, nowMs) ==
    [f EXCEPT !.pc = "patterns",
              !.results = results,
              !.partial = [overview |-> calculateOverviewMetrics(results, nowMs),
                           trends |-> calculateTrendMetrics(results, f.timeframe, nowMs)],
              !.calcs = 2,
              !.catalogReads = 1]

LoadDone ==
    /\ readable
    /\ CatalogReadSettled
    /\ \E f \in Frames :
         /\ f.pc = "loading"
         /\ inflight' = Resume(f, AfterLoad(f,
                 loadValidationResults(files, f.project, f.cutoffDate), now))
    /\ response' = NoResponse
    /\ UNCHANGED <<now, ticks, files, readable, metricsCache, started>>

\* await this.getPatternLibraryStats() settles (it never rejects); then
\* performance and health are computed and calculateComparativeMetrics
\* runs up to its await of loadValidationResults().
AfterPatterns(f, libraryStats, nowMs) ==
    [f EXCEPT !.pc = "comparative",
              !.partial = [overview |-> f.partial.overview,
                           trends |-> f.partial.trends,
                           patterns |-> calculatePatternMetrics(f.results, libraryStats),
                           performance |-> calculatePerformanceMetrics(f.results),
                           health |-> calculateHealthMetrics(f.results, nowMs)],
              !.calcs = 5,
              !.loads = 2]

PatternsDone ==
    /\ \E f \in Frames :
         /\ f.pc = "patterns"
         /\ inflight' = Resume(f, AfterPatterns(f, LibraryStats, now))
    /\ response' = NoResponse
    /\ UNCHANGED <<now, ticks, files, readable, metricsCache, started>>

\* Mutant of Snapshot: cached before the comparative metrics are there.
SnapshotWithoutComparative(partial, comparative, project, timeframe, nowMs) ==
    [overview |-> partial.overview, trends |-> partial.trends,
     patterns |-> partial.patterns, performance |-> partial.performance,
     health |-> partial.health,
     timestamp |-> nowMs, project |-> project, timeframe |-> timeframe]

\* The snapshot calculateQualityMetrics assembles.
Snapshot(partial, comparative, project, timeframe, nowMs) ==
    [overview |-> partial.overview, trends |-> partial.trends,
     patterns |-> partial.patterns, performance |-> partial.performance,
     health |-> partial.health, comparative |-> comparative,
     timestamp |-> nowMs, project |-> project, timeframe |-> timeframe]

\* Mutant of StoreSnapshot: an entry already there is kept.
StoreSnapshotIfAbsent(cache, key, metrics, nowMs) ==
    IF key \in DOMAIN cache THEN cache
    ELSE [k \in DOMAIN cache \cup {key} |->
             IF k = key THEN [data |-> metrics, timestamp |-> nowMs] ELSE cache[k]]

\* this.metricsCache.set(cacheKey, {data: metrics, timestamp: Date.now()})
StoreSnapshot(cache, key, metrics, nowMs) ==
    MapSet(cache, key, [data |-> metrics, timestamp |-> nowMs])

\* What calculateComparativeMetrics returns: the comparison over all the
\* results, or, when its loadValidationResults() rejects, the object of its
\* catch block.
ComparativeOutcome(f, nowMs) ==
    IF readable
    THEN calculateComparativeMetrics(loadValidationResults(files, NoString, 0),
                                     f.project, nowMs)
    ELSE EmptyComparative

\* The loadValidationResults() of calculateComparativeMetrics settles; the
\* snapshot is assembled, cached and returned.
ComparativeDone ==
    /\ CatalogReadSettled
    /\ \E f \in Frames :
         /\ f.pc = "comparative"
         /\ LET metrics == Snapshot(f.partial, ComparativeOutcome(f, now),
                                    f.project, f.timeframe, now)
            IN /\ metricsCache' = StoreSnapshot(metricsCache,
                                      CacheKey(f.project, f.timeframe),
                                      metrics, now)
               /\ response' = Returned(f.project, f.timeframe, metrics, FALSE)
         /\ inflight' = inflight (-) SetToBag({f})
    /\ UNCHANGED <<now, ticks, files, readable, started>>

\* Mutant of clearCache: the entries of the unfiltered view survive.
clearCacheOfProjects(cache) ==
    [k \in {j \in DOMAIN cache : j[1] = GlobalName} |-> cache[k]]

\* clearCache()
clearCache(cache) == EmptyMap

\* POST /cache/clear
ClearCache ==
    /\ CatalogReadSettled
    /\ metricsCache' = clearCache(metricsCache)
    /\ response' = [kind |-> "cleared",
                    before |-> getCacheStats(metricsCache),
                    after |-> getCacheStats(metricsCache')]
    /\ UNCHANGED <<now, ticks, files, readable, started, inflight>>

Next ==
    \/ Tick
    \/ AddFile
    \/ StoreFault
    \/ ClearCache
    \/ Request
    \/ LoadFailed
    \/ LoadDone
    \/ PatternsDone
    \/ ComparativeDone

Spec == Init /\ [][Next]_vars

\* ------------------------------------- loadValidationResults on its own
\* Files a store may hold: two projects whose names contain "al" in different
\* cases, a file that does not parse, a record without project and timestamp
\* (its mtime ties with another record's timestamp), a file that is not
\* .json, and a record of another project.
LoadFileChoices ==
    {MkFile(TRUE, TRUE, StartTime,
            MkRecord(1, ProjectAl, StartTime - DayMs, "success", 1200, 10, <<>>)),
     MkFile(TRUE, TRUE, StartTime,
            MkRecord(2, <<"b", "A", "l">>, StartTime - DayMs + 1, "warning",
                     NoNumber, NoNumber, <<>>)),
     MkFile(TRUE, FALSE, StartTime, <<>>),
     MkFile(TRUE, TRUE, StartTime - DayMs,
            MkRecord(4, NoString, NoTimestamp, "failure", 0, 0, <<>>)),
     MkFile(FALSE, TRUE, StartTime,
            MkRecord(5, ProjectAl, StartTime, "success", 1200, 10, <<>>)),
     MkFile(TRUE, TRUE, StartTime,
            MkRecord(6, <<"B">>, StartTime, "success", 900, 4, <<>>))}

LoadProjects == {NoString, <<"a", "l">>, <<"A", "L">>, <<"b">>, UnknownName}
LoadCutoffs == {0, StartTime - DayMs, StartTime - DayMs + 1}

SeqsUpTo(S, n) == UNION {[1..k -> S] : k \in 0..n}

InitLoad ==
    /\ now = StartTime
    /\ ticks = 0
    /\ files \in SeqsUpTo(LoadFileChoices, MaxLoadFiles)
    /\ readable = TRUE
    /\ metricsCache = EmptyMap
    /\ started = 0
    /\ inflight = EmptyBag
    /\ response = NoResponse

\* One call of loadValidationResults(projectName, cutoffDate).
LoadCall ==
    /\ started = 0
    /\ started' = 1
    /\ \E projectName \in LoadProjects, cutoffDate \in LoadCutoffs :
         response' = [kind |-> "loaded", projectName |-> projectName,
                      cutoffDate |-> cutoffDate,
                      results |-> loadValidationResults(files, projectName,
                                                        cutoffDate)]
    /\ UNCHANGED <<now, ticks, files, readable, metricsCache, inflight>>

NextLoad == LoadCall

SpecLoad == InitLoad /\ [][NextLoad]_vars

\* ------------------------------------------- the calculators on their own
\* Results as loadValidationResults returns them: any status, with or
\* without an execution time, in timestamp order.
CalcFileChoices ==
    {MkFile(TRUE, TRUE, StartTime,
            MkRecord(1, ProjectAl, StartTime - DayMs, status, executionTime, 10,
                     <<MkPattern("p1", "", "backend", 90)>>)) :
         status \in {"success", "failure", "warning"},
         executionTime \in {NoNumber, 40000}}

InitCalc ==
    /\ now = StartTime
    /\ ticks = 0
    /\ files \in SeqsUpTo(CalcFileChoices, MaxCalcResults)
    /\ readable = TRUE
    /\ metricsCache = EmptyMap
    /\ started = 0
    /\ inflight = EmptyBag
    /\ response = NoResponse

\* The six calculators applied to the results of one load, as
\* calculateQualityMetrics applies them.
Calculated(results, currentProject, timeframe, nowMs) ==
    [kind |-> "calculated", results |-> results,
     overview |-> calculateOverviewMetrics(results, nowMs),
     trends |-> calculateTrendMetrics(results, timeframe, nowMs),
     patterns |-> calculatePatternMetrics(results, LibraryStats),
     performance |-> calculatePerformanceMetrics(results),
     health |-> calculateHealthMetrics(results, nowMs),
     comparative |-> calculateComparativeMetrics(results, currentProject, nowMs)]

CalcCall ==
    /\ started = 0
    /\ started' = 1
    /\ response' = Calculated(loadValidationResults(files, NoString, 0),
                              NoString, 2, now)
    /\ UNCHANGED <<now, ticks, files, readable, metricsCache, inflight>>

NextCalc == CalcCall

SpecCalc == InitCalc /\ [][NextCalc]_vars

\* ------------------------------------------------------------- the claims
\* The cache key of a request, written out.
KeyOf(project, timeframe) ==
    <<IF project = NoString THEN GlobalName ELSE project, timeframe>>

FrameKey(f) == KeyOf(f.project, f.timeframe)

\* In a step: a call of calculateQualityMetrics arrives.
IsRequestStep == started' = started + 1

\* In a step: the keys of the calls that have just suspended at their record
\* load, and of the call just answered from the cache.
NewFrameKeys ==
    {FrameKey(f) : f \in {g \in BagToSet(inflight') :
                              CopiesIn(g, inflight') > CopiesIn(g, inflight)}}

ServedKeys ==
    IF response'.kind = "metrics" /\ response'.fromCache
    THEN {KeyOf(response'.project, response'.timeframe)} ELSE {}

RequestKeys == NewFrameKeys \cup ServedKeys

Age(k) == now - metricsCache[k].timestamp

\* In a step: the suspended call f is resumed.
Settles(f) == CopiesIn(f, inflight') < CopiesIn(f, inflight)

\* C1. Cache idempotence: a call for a key whose entry was stored less than
\* cacheTimeout ms ago returns the stored snapshot itself, suspends at no
\* load (so reads neither store nor catalog and runs no calculator) and
\* leaves the cache as it is.
C1_CacheIdempotence ==
    [][IsRequestStep =>
          \A k \in DOMAIN metricsCache \cap RequestKeys :
              Age(k) < cacheTimeout =>
                  /\ response'.kind = "metrics"
                  /\ response'.fromCache
                  /\ response'.metrics = metricsCache[k].data
                  /\ metricsCache' = metricsCache
                  /\ inflight' = inflight]_vars

\* A call has just been answered from an entry stored earlier.
C1_Witness ==
    /\ response.kind = "metrics"
    /\ response.fromCache
    /\ KeyOf(response.project, response.timeframe) \in DOMAIN metricsCache
    /\ response.metrics = metricsCache[KeyOf(response.project, response.timeframe)].data
    /\ now > metricsCache[KeyOf(response.project, response.timeframe)].timestamp

\* C2. Single flight: a call that arrives while a computation for the same
\* key awaits its record load starts no second load.
C2_SingleFlight ==
    [][IsRequestStep =>
          \A f \in Frames : f.pc = "loading" => FrameKey(f) \notin NewFrameKeys]_vars

\* C3 as claimed. An entry is served as long as its age is at most
\* cacheTimeout: a call arriving exactly cacheTimeout ms after the entry was
\* stored is answered from the cache.
C3_ServedAtBoundary ==
    [][IsRequestStep =>
          \A k \in DOMAIN metricsCache \cap RequestKeys :
              Age(k) <= cacheTimeout =>
                  /\ response'.kind = "metrics"
                  /\ response'.fromCache
                  /\ inflight' = inflight]_vars

\* C3 as amended. An entry is served while its age is below cacheTimeout and
\* recomputed from age cacheTimeout on.
C3_StaleAtBoundary ==
    [][IsRequestStep =>
          \A k \in DOMAIN metricsCache \cap RequestKeys :
              /\ Age(k) < cacheTimeout =>
                     /\ response'.kind = "metrics"
                     /\ response'.fromCache
                     /\ inflight' = inflight
              /\ Age(k) >= cacheTimeout =>
                     /\ response'.kind = "none"
                     /\ k \in NewFrameKeys
                     /\ metricsCache' = metricsCache]_vars

\* A call that arrived exactly cacheTimeout ms after its key's entry was
\* stored is suspended at its record load.
C3_Witness ==
    \E f \in Frames :
        /\ f.pc = "loading"
        /\ f.cutoffDate = now - f.timeframe * DayMs
        /\ FrameKey(f) \in DOMAIN metricsCache
        /\ Age(FrameKey(f)) = cacheTimeout

\* The state of a key: Empty, Cached or Stale.
KeyState(cache, k, nowMs) ==
    IF k \notin DOMAIN cache THEN "Empty"
    ELSE IF nowMs - cache[k].timestamp < cacheTimeout THEN "Cached"
    ELSE "Stale"

AllKeys == {KeyOf(a[1], a[2]) : a \in ReqArgs}

\* C4. Lifecycle of a key: a call for an absent or stale entry suspends at a
\* record load; a computed snapshot is stored under its key with the time
\* of storing and is the one returned, so the key is Cached; a key leaves
\* Cached for Stale only by the passing of time, never becomes Stale from
\* Empty, and becomes Empty only through clearCache.
C4_Lifecycle ==
    [][/\ IsRequestStep =>
              \A k \in AllKeys :
                  (k \in RequestKeys /\ KeyState(metricsCache, k, now) # "Cached")
                      => k \in NewFrameKeys
       /\ (response'.kind = "metrics" /\ ~response'.fromCache) =>
              LET k == KeyOf(response'.project, response'.timeframe)
              IN /\ k \in DOMAIN metricsCache'
                 /\ metricsCache'[k] = [data |-> response'.metrics, timestamp |-> now']
                 /\ KeyState(metricsCache', k, now') = "Cached"
       /\ \A k \in AllKeys :
              LET before == KeyState(metricsCache, k, now)
                  after == KeyState(metricsCache', k, now')
              IN /\ (before = "Empty") => (after # "Stale")
                 /\ (before # "Empty" /\ after = "Empty") => response'.kind = "cleared"
                 /\ (before = "Cached" /\ after = "Stale") =>
                        (metricsCache' = metricsCache /\ now' > now)
                 /\ (before = "Stale" /\ after = "Cached") =>
                        (response'.kind = "metrics" /\ ~response'.fromCache
                         /\ metricsCache'[k].timestamp = now')]_vars

\* A snapshot has just been computed and stored after a stale period could
\* have begun.
C4_Witness ==
    /\ response.kind = "metrics"
    /\ ~response.fromCache
    /\ now >= StartTime + cacheTimeout
    /\ metricsCache[KeyOf(response.project, response.timeframe)]
           = [data |-> response.metrics, timestamp |-> now]

\* C5. clearCache empties the cache whatever its keys and their ages:
\* getCacheStats then reports size 0 and no key, and the route answers with
\* the statistics of before (the entries held) and after (size 0).
C5_ClearCache ==
    [][(response'.kind = "cleared" /\ response' # response) =>
          /\ metricsCache' = EmptyMap
          /\ getCacheStats(metricsCache') = [size |-> 0, keys |-> {}]
          /\ response'.before.size = Cardinality(DOMAIN metricsCache)
          /\ response'.before.keys = DOMAIN metricsCache
          /\ response'.after.size = 0]_vars

\* A cache of two entries has just been cleared.
C5_Witness ==
    /\ response.kind = "cleared"
    /\ response.before.size >= 2
    /\ response.after.size = 0
    /\ DOMAIN metricsCache = {}

SnapshotFields ==
    {"overview", "trends", "patterns", "performance", "health", "comparative",
     "timestamp", "project", "timeframe"}

\* An entry written whole: data and timestamp of one computation, the
\* snapshot with all its parts.
WholeEntry(e) ==
    /\ DOMAIN e = {"data", "timestamp"}
    /\ DOMAIN e.data = SnapshotFields
    /\ e.data.timestamp = e.timestamp
    /\ (e.data.overview.totalValidations = 0) = (e.data.health.overall = "unknown")
    /\ Len(e.data.trends) = e.data.timeframe + 1

\* C6. Readers see whole entries: whatever calls are suspended, every entry
\* of the cache, and every snapshot served from it, is complete.
C6_AtomicEntries ==
    /\ \A k \in DOMAIN metricsCache : WholeEntry(metricsCache[k])
    /\ (response.kind = "metrics" /\ response.fromCache) =>
           /\ DOMAIN response.metrics = SnapshotFields
           /\ \E k \in DOMAIN metricsCache : metricsCache[k].data = response.metrics

\* A recomputation for a key is suspended at its last await, about to
\* replace the entry a reader of that key still finds.
C6_Witness ==
    \E f \in Frames :
        /\ f.pc = "comparative"
        /\ FrameKey(f) \in DOMAIN metricsCache
        /\ WholeEntry(metricsCache[FrameKey(f)])
        /\ metricsCache[FrameKey(f)].timestamp < now

\* C7. Keys are independent: a step changes the entry of a key only by
\* storing the snapshot of a call for that very key (or by clearCache), and
\* every entry holds the snapshot computed for the arguments of its key.
C7_KeyIndependence ==
    [][/\ \A k \in DOMAIN metricsCache \cup DOMAIN metricsCache' :
              (k \notin DOMAIN metricsCache \/ k \notin DOMAIN metricsCache'
               \/ metricsCache'[k] # metricsCache[k])
                  => \/ response'.kind = "cleared"
                     \/ /\ response'.kind = "metrics"
                        /\ ~response'.fromCache
                        /\ KeyOf(response'.project, response'.timeframe) = k
       /\ \A k \in DOMAIN metricsCache' :
              /\ KeyOf(metricsCache'[k].data.project,
                       metricsCache'[k].data.timeframe) = k
              /\ Len(metricsCache'[k].data.trends) = k[2] + 1]_vars

\* The cache holds the entries of two keys, the second just stored.
C7_Witness ==
    /\ Cardinality(DOMAIN metricsCache) = 2
    /\ response.kind = "metrics"
    /\ ~response.fromCache

\* C8 as claimed. When the directory cannot be listed, the load yields no
\* results instead of an error and the call goes on to a 'no data' snapshot.
C8_UnreadableYieldsEmpty ==
    [][\A f \in Frames :
          (~readable /\ f.pc = "loading" /\ Settles(f)) =>
              /\ response'.kind # "error"
              /\ \E g \in BagToSet(inflight') :
                     /\ g.pc = "patterns"
                     /\ g.partial.overview = EmptyOverview]_vars

\* C8 as amended. When the directory cannot be listed, the load rejects: the
\* call fails with 'Failed to calculate quality metrics', returns no
\* snapshot and leaves the cache as it is.  A readable directory without a
\* matching record gives the 'no data' overview.
C8_UnreadableRejects ==
    [][\A f \in Frames :
          /\ (~readable /\ f.pc = "loading" /\ Settles(f)) =>
                 /\ response' = [kind |-> "error", project |-> f.project,
                                 timeframe |-> f.timeframe,
                                 message |-> "Failed to calculate quality metrics"]
                 /\ metricsCache' = metricsCache
                 /\ inflight' = inflight (-) SetToBag({f})
          /\ (readable /\ f.pc = "loading" /\ Settles(f)) =>
                 /\ response'.kind = "none"
                 /\ \E g \in BagToSet(inflight') :
                        /\ g.pc = "patterns"
                        /\ g.project = f.project
                        /\ g.timeframe = f.timeframe
                        /\ (g.results = <<>>) = (g.partial.overview = EmptyOverview)]_vars

\* A call has just failed on an unreadable directory.
C8_Witness ==
    /\ response.kind = "error"
    /\ ~readable

\* The characters of two strings agree up to case.
SameLetters(s, u) ==
    /\ Len(s) = Len(u)
    /\ \A i \in 1..Len(s) :
           \/ s[i] = u[i]
           \/ {s[i], u[i]} \in {{"a", "A"}, {"b", "B"}, {"g", "G"}, {"l", "L"}}

ContainsIgnoringCase(hay, needle) ==
    \E i \in 1..(Len(hay) + 1), j \in 0..Len(hay) :
        SameLetters(SubSeq(hay, i, j), needle)

\* The record of the i-th file, its timestamp defaulted to the mtime.
RecordOf(i) ==
    IF files[i].data.timestamp = NoTimestamp
    THEN [files[i].data EXCEPT !.timestamp = files[i].mtime]
    ELSE files[i].data

\* The files a load with these arguments has to return.
Wanted(projectName, cutoffDate) ==
    {i \in 1..Len(files) :
        /\ files[i].isJson
        /\ files[i].parses
        /\ (cutoffDate # 0 => RecordOf(i).timestamp >= cutoffDate)
        /\ (projectName # NoString =>
                ContainsIgnoringCase(files[i].data.project, projectName))}

\* C9. load(project, cutoff) returns exactly the records that parse, are not
\* older than the cutoff and whose project contains the argument up to
\* case, each as often as it is stored, in ascending order of timestamp; a
\* file that does not parse removes nothing else.
C9_LoadExact ==
    response.kind = "loaded" =>
        LET wanted == Wanted(response.projectName, response.cutoffDate)
            results == response.results
        IN /\ Len(results) = Cardinality(wanted)
           /\ \A i \in wanted :
                  Cardinality({j \in 1..Len(results) : results[j] = RecordOf(i)})
                      = Cardinality({j \in wanted : RecordOf(j) = RecordOf(i)})
           /\ \A a, b \in 1..Len(results) :
                  a < b => results[a].timestamp <= results[b].timestamp

\* A filtered load over a store with a file that does not parse has
\* returned two records stored in the other order.
C9_Witness ==
    /\ response.kind = "loaded"
    /\ response.projectName # NoString
    /\ response.cutoffDate # 0
    /\ \E i \in 1..Len(files) : ~files[i].parses
    /\ Len(response.results) = 2
    /\ \E i, j \in 1..Len(files) :
           /\ i < j
           /\ files[i].parses /\ files[j].parses
           /\ response.results = <<RecordOf(j), RecordOf(i)>>
           /\ RecordOf(j).timestamp < RecordOf(i).timestamp

\* C10. No results: the overview is all zero with trend 'stable', the health
\* is 'unknown' with score 0, no indicator and the one recommendation, and
\* the other calculators return their empty values.
C10_EmptyResults ==
    (response.kind = "calculated" /\ response.results = <<>>) =>
        /\ response.overview.totalValidations = 0
        /\ response.overview.successRate = 0
        /\ response.overview.failureRate = 0
        /\ response.overview.warningRate = 0
        /\ response.overview.qualityScore = 0
        /\ response.overview.trend = "stable"
        /\ response.health.overall = "unknown"
        /\ response.health.score = 0
        /\ response.health.indicators = <<>>
        /\ response.health.recommendations = <<"No validation data available">>
        /\ response.patterns.totalPatterns = 0
        /\ response.performance.throughput = 0
        /\ response.comparative.totalProjects = 0

\* The calculators have run on no results.
C10_Witness ==
    /\ response.kind = "calculated"
    /\ response.results = <<>>
    /\ files = <<>>

\* --------------------------------- calculateOverviewMetrics on its own
\* A store of s successes, w warnings and f failures, all of one project
\* and one day old.
OverviewStatus(i, s, w) ==
    IF i <= s THEN "success" ELSE IF i <= s + w THEN "warning" ELSE "failure"

OverviewFiles(s, w, f) ==
    [i \in 1..(s + w + f) |->
        MkFile(TRUE, TRUE, StartTime,
               MkRecord(i, ProjectAl, StartTime - DayMs, OverviewStatus(i, s, w),
                        NoNumber, NoNumber, <<>>))]

InitOverview ==
    /\ now = StartTime
    /\ ticks = 0
    /\ files \in {OverviewFiles(c[1], c[2], c[3]) :
                    c \in {d \in (0..MaxOverviewResults) \X (0..MaxOverviewResults)
                                    \X (0..MaxOverviewResults) :
                              d[1] + d[2] + d[3] \in 1..MaxOverviewResults}}
    /\ readable = TRUE
    /\ metricsCache = EmptyMap
    /\ started = 0
    /\ inflight = EmptyBag
    /\ response = NoResponse

\* calculateOverviewMetrics applied to the results of a load.
OverviewOf(results, nowMs) ==
    [kind |-> "overview", results |-> results,
     overview |-> calculateOverviewMetrics(results, nowMs)]

OverviewCall ==
    /\ started = 0
    /\ started' = 1
    /\ response' = OverviewOf(loadValidationResults(files, NoString, 0), now)
    /\ UNCHANGED <<now, ticks, files, readable, metricsCache, inflight>>

\* One result file is rewritten with the next better status, and the
\* overview is calculated again.
BetterStatus(status) == IF status = "failure" THEN "warning" ELSE "success"

Reclassify ==
    /\ started \in 1..MaxReclassified
    /\ started' = started + 1
    /\ \E i \in 1..Len(files) :
         /\ files[i].data.status \in {"failure", "warning"}
         /\ files' = [files EXCEPT ![i].data.status = BetterStatus(@)]
    /\ response' = OverviewOf(loadValidationResults(files', NoString, 0), now)
    /\ UNCHANGED <<now, ticks, readable, metricsCache, inflight>>

NextOverview == OverviewCall \/ Reclassify

SpecOverview == InitOverview /\ [][NextOverview]_vars

\* The results with a status, counted one by one.
NumberWith(results, status) ==
    Cardinality({i \in 1..Len(results) : results[i].status = status})

\* r is x / y rounded to the nearest integer, halves upwards (y > 0).
IsRounded(r, x, y) == 2 * y * r - y <= 2 * x /\ 2 * x < 2 * y * r + y

\* C11. For results that are not empty the three rates of the overview add
\* up to 99, 100 or 101.
C11_RatesSum ==
    (response.kind = "overview" /\ response.results # <<>>) =>
        response.overview.successRate + response.overview.failureRate
            + response.overview.warningRate \in {99, 100, 101}

\* The rates of 1 success, 6 warnings and 1 failure add up to 101.
C11_Witness ==
    /\ response.kind = "overview"
    /\ Len(response.results) = 8
    /\ response.overview.successRate = 13
    /\ response.overview.failureRate = 13
    /\ response.overview.successRate + response.overview.failureRate
           + response.overview.warningRate = 101

\* C12. The quality score never falls when one result goes from failure to
\* warning or from warning to success and the others stay as they are.
C12_QualityMonotone ==
    [][(/\ response.kind = "overview"
        /\ response'.kind = "overview"
        /\ Len(response'.results) = Len(response.results)
        /\ \E i \in 1..Len(response.results) :
             /\ <<response.results[i].status, response'.results[i].status>>
                    \in {<<"failure", "warning">>, <<"warning", "success">>}
             /\ \A j \in 1..Len(response.results) :
                    j # i => response'.results[j] = response.results[j])
          => response'.overview.qualityScore >= response.overview.qualityScore]_vars

\* A result has gone from failure to warning and then to success, and the
\* quality score has risen.
C12_Witness ==
    /\ response.kind = "overview"
    /\ started = 3
    /\ Len(response.results) = 3
    /\ NumberWith(response.results, "success") = 1
    /\ NumberWith(response.results, "failure") = 2
    /\ response.overview.qualityScore = 33

\* C13. For results that are not empty the overview has their number, the
\* share of successes in percent rounded, and as quality score the share of
\* successes plus half the warnings in percent rounded; 7 successes, 2
\* warnings and 1 failure give 70 and 80.
C13_OverviewFormulas ==
    (response.kind \in {"overview", "patterns"} /\ response.results # <<>>) =>
        LET n == Len(response.results)
            s == NumberWith(response.results, "success")
            w == NumberWith(response.results, "warning")
        IN /\ response.overview.totalValidations = n
           /\ IsRounded(response.overview.successRate, 100 * s, n)
           /\ IsRounded(response.overview.qualityScore, 50 * (2 * s + w), n)
           /\ (n = 10 /\ s = 7 /\ w = 2) =>
                  /\ response.overview.successRate = 70
                  /\ response.overview.qualityScore = 80

\* The overview of 7 successes, 2 warnings and 1 failure.
C13_Witness ==
    /\ response.kind = "overview"
    /\ Len(response.results) = 10
    /\ NumberWith(response.results, "success") = 7
    /\ NumberWith(response.results, "warning") = 2
    /\ NumberWith(response.results, "failure") = 1
    /\ response.overview.successRate = 70
    /\ response.overview.qualityScore = 80

\* ---------------------------------------------------------------------------
\* calculateTrend on stores of older and recent results.
\* ---------------------------------------------------------------------------

\* The first on files hold results 10 days old, b of them successes, which
\* come first or last among them; the next rn hold results 3 days old, the
\* first a of them successes.  Every other result is a failure.
TrendStatus(i, on, b, successesFirst, a) ==
    IF i > on THEN (IF i - on <= a THEN "success" ELSE "failure")
    ELSE IF successesFirst THEN (IF i <= b THEN "success" ELSE "failure")
    ELSE (IF i > on - b THEN "success" ELSE "failure")

TrendFiles(on, b, successesFirst, rn, a) ==
    [i \in 1..(on + rn) |->
        MkFile(TRUE, TRUE, StartTime,
               MkRecord(i, ProjectAl,
                        IF i <= on THEN StartTime - 10 * DayMs + i
                        ELSE StartTime - 3 * DayMs + i,
                        TrendStatus(i, on, b, successesFirst, a),
                        NoNumber, NoNumber, <<>>))]

\* The values of days calculateTrend is called with.
TrendDays == {7, 14}

InitTrend ==
    /\ now = StartTime
    /\ ticks = 0
    /\ files \in {TrendFiles(c[1], c[2], c[3], c[4], c[5]) :
                    c \in {d \in (0..MaxWindow) \X (0..MaxWindow) \X BOOLEAN
                                    \X (0..MaxWindow) \X (0..MaxWindow) :
                              d[2] <= d[1] /\ d[5] <= d[4]}}
    /\ readable = TRUE
    /\ metricsCache = EmptyMap
    /\ started = 0
    /\ inflight = EmptyBag
    /\ response = NoResponse

\* calculateTrend applied to the results of a load.
TrendCall ==
    /\ started = 0
    /\ started' = 1
    /\ \E days \in TrendDays :
         LET results == loadValidationResults(files, NoString, 0)
         IN response' = [kind |-> "trend", results |-> results, days |-> days,
                         trend |-> calculateTrend(results, days, now)]
    /\ UNCHANGED <<now, ticks, files, readable, metricsCache, inflight>>

NextTrend == TrendCall

SpecTrend == InitTrend /\ [][NextTrend]_vars

\* The results of the last days days, and as many results just before them.
RecentWindow(results, days) ==
    SelectSeq(results, LAMBDA r : r.timestamp >= now - days * DayMs)

PreviousWindow(results, days) ==
    LastN(SelectSeq(results, LAMBDA r : r.timestamp < now - days * DayMs),
          Len(RecentWindow(results, days)))

\* The trend of the success rates rs / rn and ps / pn compared as fractions
\* with 1/20.
TrendOfFractions(rs, rn, ps, pn) ==
    IF 20 * (rs * pn - ps * rn) > rn * pn THEN "improving"
    ELSE IF 20 * (rs * pn - ps * rn) < -(rn * pn) THEN "declining"
    ELSE "stable"

\* C14. calculateTrend gives 'stable' whenever the recent window or the
\* previous window has fewer than 5 results; otherwise 'improving' when the
\* recent success rate less the previous one is above 0.05, 'declining' when
\* it is below -0.05, and 'stable' in between, a difference of exactly 0.05
\* or -0.05 included.
C14_TrendByDifference ==
    response.kind = "trend" =>
        LET recent == RecentWindow(response.results, response.days)
            previous == PreviousWindow(response.results, response.days)
        IN response.trend =
              IF Len(recent) < 5 \/ Len(previous) < 5 THEN "stable"
              ELSE TrendOfFractions(NumberWith(recent, "success"), Len(recent),
                                    NumberWith(previous, "success"), Len(previous))

\* ---------------------------------------------------------------------------
\* calculateTrendMetrics on small stores, for every timeframe up to
\* MaxTimeframe days.
\* ---------------------------------------------------------------------------

BucketFileChoices ==
    {MkFile(TRUE, TRUE, StartTime,
            MkRecord(1, ProjectAl, timestamp, status, NoNumber, NoNumber, <<>>)) :
         timestamp \in {StartTime, StartTime - 1, StartTime - DayMs,
                        StartTime - 11 * DayMs, StartTime - 14 * DayMs},
         status \in {"success", "failure"}}

InitBuckets ==
    /\ now = StartTime
    /\ ticks = 0
    /\ files \in SeqsUpTo(BucketFileChoices, MaxBucketResults)
    /\ readable = TRUE
    /\ metricsCache = EmptyMap
    /\ started = 0
    /\ inflight = EmptyBag
    /\ response = NoResponse

\* calculateTrendMetrics applied to the results of a load.
BucketsCall ==
    /\ started = 0
    /\ started' = 1
    /\ \E timeframe \in 1..MaxTimeframe :
         LET results == loadValidationResults(files, NoString, 0)
         IN response' = [kind |-> "trends", results |-> results,
                         timeframe |-> timeframe,
                         trends |-> calculateTrendMetrics(results, timeframe, now)]
    /\ UNCHANGED <<now, ticks, files, readable, metricsCache, inflight>>

NextBuckets == BucketsCall

SpecBuckets == InitBuckets /\ [][NextBuckets]_vars

\* C15. For every timeframe of at least one day the buckets are
\* max(1, floor(timeframe / 10)) days wide, there are at most 11 of them, their
\* ends strictly increase, and each bucket's overview is that of the results
\* with start <= timestamp < end.
C15_Buckets ==
    response.kind = "trends" =>
        LET trends == response.trends
            width == IF response.timeframe \div 10 >= 1
                     THEN response.timeframe \div 10 ELSE 1
        IN /\ Len(trends) <= 11
           /\ \A k \in 1..Len(trends) :
                 /\ trends[k].dateRange.end - trends[k].dateRange.start
                       = width * DayMs
                 /\ k > 1 => trends[k - 1].dateRange.end < trends[k].dateRange.end
                 /\ trends[k].metrics =
                       calculateOverviewMetrics(
                           SelectSeq(response.results,
                                     LAMBDA r : /\ trends[k].dateRange.start <= r.timestamp
                                                /\ r.timestamp < trends[k].dateRange.end),
                           now)

\* ---------------------------------------------------------------------------
\* calculateHealthMetrics on stores of older and recent results with or
\* without execution times and patterns.
\* ---------------------------------------------------------------------------

\* The execution times of the results of a store: none has one, each has
\* 40000 ms, or they are 0 ms and 50000 ms in turn.
HealthTimes == {"none", "slow", "mixed"}

HealthTime(times, i) ==
    IF times = "none" THEN NoNumber
    ELSE IF times = "slow" THEN 40000
    ELSE IF i % 2 = 1 THEN 0 ELSE 50000

\* The results of TrendFiles with execution times, and three patterns in the
\* last of them when varied.
HealthFiles(c, times, varied) ==
    LET plain == TrendFiles(c[1], c[2], c[3], c[4], c[5])
    IN [i \in 1..Len(plain) |->
           [plain[i] EXCEPT
               !.data.executionTime = HealthTime(times, i),
               !.data.patterns =
                   IF varied /\ i = Len(plain)
                   THEN <<MkPattern("p1", "", "backend", 90),
                          MkPattern("p2", "", "backend", 90),
                          MkPattern("", "t3", "backend", 90)>>
                   ELSE <<>>]]

InitHealth ==
    /\ now = StartTime
    /\ ticks = 0
    /\ files \in {HealthFiles(c, times, varied) :
                    c \in {d \in (0..MaxHealthWindow) \X (0..MaxHealthWindow)
                                    \X BOOLEAN \X (0..MaxHealthWindow)
                                    \X (0..MaxHealthWindow) :
                              d[2] <= d[1] /\ d[5] <= d[4]},
                    times \in HealthTimes, varied \in BOOLEAN}
    /\ readable = TRUE
    /\ metricsCache = EmptyMap
    /\ started = 0
    /\ inflight = EmptyBag
    /\ response = NoResponse

\* calculateHealthMetrics applied to the results of a load.
HealthCall ==
    /\ started = 0
    /\ started' = 1
    /\ LET results == loadValidationResults(files, NoString, 0)
       IN response' = [kind |-> "health", results |-> results,
                       health |-> calculateHealthMetrics(results, now)]
    /\ UNCHANGED <<now, ticks, files, readable, metricsCache, inflight>>

NextHealth == HealthCall

SpecHealth == InitHealth /\ [][NextHealth]_vars

\* The results that carry an execution time, and the sum of these times.
Timed(results) == {i \in 1..Len(results) : results[i].executionTime # NoNumber}

RECURSIVE SumOfTimes(_, _)
SumOfTimes(results, indices) ==
    IF indices = {} THEN 0
    ELSE LET i == CHOOSE j \in indices : TRUE
         IN results[i].executionTime + SumOfTimes(results, indices \ {i})

\* C16. For results that are not empty the health score is
\* max(0, 100 - d1 - d2 - d3 - d4): d1 = 70 - successRate when successRate is
\* below 70, d2 = 15 when the trend of 7 days is declining, d3 = 5 when the
\* last 20 results use fewer than 3 distinct patterns and there are more than
\* 10 results, d4 = 10 when the mean execution time of the results carrying
\* one is above 30000; overall is poor below 60, fair below 75, good below
\* 90 and excellent otherwise.
C16_HealthScore ==
    (response.kind = "health" /\ response.results # <<>>) =>
        LET results == response.results
            n == Len(results)
            successRate ==
                CHOOSE r \in 0..100 :
                    IsRounded(r, 100 * NumberWith(results, "success"), n)
            d1 == IF successRate < 70 THEN 70 - successRate ELSE 0
            d2 == IF calculateTrend(results, 7, now) = "declining" THEN 15 ELSE 0
            names == UNION {{IF p.name # "" THEN p.name ELSE p.type :
                                p \in {results[i].patterns[j] :
                                          j \in 1..Len(results[i].patterns)}} :
                            i \in {k \in 1..n : k > n - 20}}
            d3 == IF Cardinality(names) < 3 /\ n > 10 THEN 5 ELSE 0
            d4 == IF /\ Timed(results) # {}
                     /\ SumOfTimes(results, Timed(results))
                          > 30000 * Cardinality(Timed(results))
                  THEN 10 ELSE 0
            score == IF 100 - d1 - d2 - d3 - d4 > 0
                     THEN 100 - d1 - d2 - d3 - d4 ELSE 0
        IN /\ response.health.score = score
           /\ response.health.overall =
                 IF score < 60 THEN "poor" ELSE IF score < 75 THEN "fair"
                 ELSE IF score < 90 THEN "good" ELSE "excellent"

\* ---------------------------------------------------------------------------
\* calculateComparativeMetrics on stores of three projects.
\* ---------------------------------------------------------------------------

\* The first u files hold results without a project, all failures; the next
\* cb hold results of project "B", the first sb of them successes; the last
\* ca hold results of project "Al", the first sa of them successes.
ComparativeFiles(u, cb, sb, ca, sa) ==
    [i \in 1..(u + cb + ca) |->
        MkFile(TRUE, TRUE, StartTime,
               MkRecord(i,
                        IF i <= u THEN NoString
                        ELSE IF i <= u + cb THEN <<"B">> ELSE ProjectAl,
                        StartTime - 10 * DayMs + i,
                        IF (u < i /\ i <= u + sb) \/ (u + cb < i /\ i <= u + cb + sa)
                        THEN "success" ELSE "failure",
                        NoNumber, NoNumber, <<>>))]

\* The values of currentProject: none, two projects of the store, and one
\* the store does not have.
ComparativeProjects == {NoString, ProjectAl, <<"B">>, <<"G">>}

\* The numbers of results of a project: on both sides of the 5 a project
\* needs to be ranked.
ProjectSizes == 4..MaxProjectResults

InitComparative ==
    /\ now = StartTime
    /\ ticks = 0
    /\ files \in {ComparativeFiles(c[1], c[2], c[3], c[4], c[5]) :
                    c \in {d \in ProjectSizes \X ProjectSizes
                                    \X (0..MaxProjectResults) \X ProjectSizes
                                    \X (0..MaxProjectResults) :
                              d[3] <= d[2] /\ d[5] <= d[4]}}
    /\ readable = TRUE
    /\ metricsCache = EmptyMap
    /\ started = 0
    /\ inflight = EmptyBag
    /\ response = NoResponse

\* calculateComparativeMetrics applied to the results of its load of the
\* whole store.
ComparativeCall ==
    /\ started = 0
    /\ started' = 1
    /\ \E currentProject \in ComparativeProjects :
         LET allResults == loadValidationResults(files, NoString, 0)
         IN response' = [kind |-> "comparative", results |-> allResults,
                         currentProject |-> currentProject,
                         comparative |->
                             calculateComparativeMetrics(allResults, currentProject, now)]
    /\ UNCHANGED <<now, ticks, files, readable, metricsCache, inflight>>

NextComparative == ComparativeCall

SpecComparative == InitComparative /\ [][NextComparative]_vars

\* The project a result counts for, and the results of a project.
NameOf(r) == IF r.project = NoString THEN UnknownName ELSE r.project

ResultsOf(results, name) == {i \in 1..Len(results) : NameOf(results[i]) = name}

\* The positions of a project among the ranked projects.
PositionsOf(projects, name) == {k \in 1..Len(projects) : projects[k].project = name}

\* C17. currentProjectRank is the position, counted from 1, of the current
\* project among the projects sorted by descending quality score, and null
\* whenever no current project is given or it is not among the ranked
\* projects; it is never 0.
C17_Rank ==
    response.kind = "comparative" =>
        LET projects == response.comparative.projects
            rank == response.comparative.currentProjectRank
            positions == PositionsOf(projects, response.currentProject)
        IN /\ rank # 0
           /\ IF response.currentProject # NoString /\ positions # {}
              THEN rank \in positions
              ELSE rank = NullRank

\* C18. The comparative analysis groups all stored results by project name,
\* ranks exactly the projects with at least 5 results, each once and with
\* all its results, in order of non-increasing quality score, and
\* totalProjects is the number of ranked projects.
C18_RankedProjects ==
    response.kind = "comparative" =>
        LET results == response.results
            projects == response.comparative.projects
            names == {NameOf(results[i]) : i \in 1..Len(results)}
        IN /\ {projects[k].project : k \in 1..Len(projects)}
                 = {name \in names : Cardinality(ResultsOf(results, name)) >= 5}
           /\ \A k \in 1..Len(projects) :
                 /\ PositionsOf(projects, projects[k].project) = {k}
                 /\ projects[k].totalValidations
                       = Cardinality(ResultsOf(results, projects[k].project))
                 /\ k > 1 => projects[k - 1].qualityScore >= projects[k].qualityScore
           /\ response.comparative.totalProjects = Len(projects)

\* Projects of 4, 6 and 5 results: the one of 4 is left out, and the sort has
\* put the project met later in the store first.
C18_Witness ==
    /\ response.kind = "comparative"
    /\ Cardinality(ResultsOf(response.results, UnknownName)) = 4
    /\ Cardinality(ResultsOf(response.results, <<"B">>)) = 6
    /\ Cardinality(ResultsOf(response.results, ProjectAl)) = 5
    /\ response.comparative.totalProjects = 2
    /\ response.comparative.projects[1].project = ProjectAl
    /\ response.comparative.projects[2].project = <<"B">>
    /\ response.comparative.projects[1].qualityScore
         > response.comparative.projects[2].qualityScore

\* ---------------------------------------------------------------------------
\* The routes GET /patterns and GET /export over a store of two results.
\* ---------------------------------------------------------------------------

RouteFiles ==
    <<FileAt(1),
      MkFile(TRUE, TRUE, StartTime - (60 * 60 * 1000),
             MkRecord(2, ProjectAl, StartTime - (30 * 60 * 1000), "failure",
                      NoNumber, NoNumber,
                      <<MkPattern("p2", "", "frontend", 50)>>))>>

\* The values of the query parameters scope ("" when absent) and format.
RouteScopes == {"", "backend", "Backend", "bogus"}
RouteFormats == {"json", "CSV", "xml"}

\* String.prototype.toLowerCase on these values
ToLowerWord(s) ==
    CASE s = "Backend" -> "backend"
      [] s = "CSV" -> "csv"
      [] OTHER -> s

\* GET /patterns: the pattern metrics filtered by scope if requested.
FilterByScope(patternMetrics, scope) ==
    IF scope # "" /\ scope # "all"
    THEN LET HasScope(q) == q.scope # "" /\ ToLowerWord(q.scope) = ToLowerWord(scope)
         IN [patternMetrics EXCEPT
                !.patternUsage = FilterSeq(@, HasScope),
                !.mostEffective = FilterSeq(@, HasScope),
                !.leastEffective = FilterSeq(@, HasScope)]
    ELSE patternMetrics

\* What the two routes send once calculateQualityMetrics has resolved.
RouteResponse(route, param, metrics) ==
    IF route = "patterns"
    THEN [kind |-> "patterns", status |-> 200, param |-> param,
          patterns |-> FilterByScope(metrics.patterns, param)]
    ELSE IF ToLowerWord(param) = "csv"
    THEN [kind |-> "export", status |-> 200, param |-> param,
          contentType |-> "text/csv",
          body |-> [i \in 1..Len(metrics.trends) |->
                       <<metrics.trends[i].period,
                         metrics.trends[i].metrics.totalValidations,
                         metrics.trends[i].metrics.successRate,
                         metrics.trends[i].metrics.qualityScore,
                         metrics.trends[i].metrics.trend>>]]
    ELSE [kind |-> "export", status |-> 200, param |-> param,
          contentType |-> "application/json", body |-> metrics]

\* A route handler up to the return of calculateQualityMetrics(undefined, 2)
\* from the cache, or up to its first await.
RouteCall(route, param) ==
    /\ started < MaxRouteCalls
    /\ CatalogReadSettled
    /\ started' = started + 1
    /\ LET key == CacheKey(NoString, 2)
       IN IF CacheFresh(metricsCache, key, now)
          THEN /\ response' = RouteResponse(route, param, metricsCache[key].data)
               /\ UNCHANGED inflight
          ELSE /\ inflight' = inflight (+) SetToBag({
                       [route |-> route, param |-> param] @@ NewFrame(NoString, 2, now)})
               /\ response' = NoResponse
    /\ UNCHANGED <<now, ticks, files, readable, metricsCache>>

GetPatterns == \E scope \in RouteScopes : RouteCall("patterns", scope)

GetExport == \E format \in RouteFormats : RouteCall("export", format)

\* calculateQualityMetrics caches and returns its snapshot, and the route
\* that awaited it sends its response.
RouteDone ==
    /\ CatalogReadSettled
    /\ \E f \in Frames :
         /\ f.pc = "comparative"
         /\ LET metrics == Snapshot(f.partial, ComparativeOutcome(f, now),
                                    f.project, f.timeframe, now)
            IN /\ metricsCache' = StoreSnapshot(metricsCache,
                                      CacheKey(f.project, f.timeframe),
                                      metrics, now)
               /\ response' = RouteResponse(f.route, f.param, metrics)
         /\ inflight' = inflight (-) SetToBag({f})
    /\ UNCHANGED <<now, ticks, files, readable, started>>

InitRoutes ==
    /\ now = StartTime
    /\ ticks = 0
    /\ files = RouteFiles
    /\ readable = TRUE
    /\ metricsCache = EmptyMap
    /\ started = 0
    /\ inflight = EmptyBag
    /\ response = NoResponse

NextRoutes ==
    \/ GetPatterns
    \/ GetExport
    \/ LoadDone
    \/ PatternsDone
    \/ RouteDone

SpecRoutes == InitRoutes /\ [][NextRoutes]_vars

\* A scope other than universal, backend and frontend, and a format other
\* than json and csv; an absent scope, the scope all and other spellings of
\* the valid words are not counted as invalid.
InvalidParam(route, param) ==
    IF route = "patterns"
    THEN param \notin {"", "all", "universal", "backend", "frontend", "Backend"}
    ELSE param \notin {"json", "csv", "CSV"}

\* C19. A request with an invalid scope or an invalid export format is
\* rejected before any record load or metric computation starts: no call of
\* calculateQualityMetrics is ever in flight for it, and it is never answered
\* with metrics.
C19_InvalidRejected ==
    /\ \A f \in Frames : ~InvalidParam(f.route, f.param)
    /\ response.kind \in {"patterns", "export"} =>
           ~InvalidParam(response.kind, response.param)

\* ---------------------------------------------------------------------------
\* calculatePerformanceMetrics on results with and without execution times
\* and test counts.
\* ---------------------------------------------------------------------------

PerformanceFileChoices ==
    {MkFile(TRUE, TRUE, StartTime,
            MkRecord(1, ProjectAl, StartTime - DayMs, "success",
                     executionTime, testCount, <<>>)) :
         executionTime \in {NoNumber, 0, 1200, 40000},
         testCount \in {NoNumber, 0, 10}}

InitPerformance ==
    /\ now = StartTime
    /\ ticks = 0
    /\ files \in SeqsUpTo(PerformanceFileChoices, MaxPerformanceResults)
    /\ readable = TRUE
    /\ metricsCache = EmptyMap
    /\ started = 0
    /\ inflight = EmptyBag
    /\ response = NoResponse

\* calculatePerformanceMetrics applied to the results of a load.
PerformanceCall ==
    /\ started = 0
    /\ started' = 1
    /\ LET results == loadValidationResults(files, NoString, 0)
       IN response' = [kind |-> "performance", results |-> results,
                       performance |-> calculatePerformanceMetrics(results)]
    /\ UNCHANGED <<now, ticks, files, readable, metricsCache, inflight>>

NextPerformance == PerformanceCall

SpecPerformance == InitPerformance /\ [][NextPerformance]_vars

\* The values of the results that carry one, in ascending order.
CarriedTimes(results) ==
    SortBy(SelectSeq([i \in 1..Len(results) |-> results[i].executionTime],
                     LAMBDA x : x # NoNumber), Ascending)

CarriedCounts(results) ==
    SelectSeq([i \in 1..Len(results) |-> results[i].testCount],
              LAMBDA x : x # NoNumber)

\* C20. The execution time statistics are the rounded mean, the median, the
\* least and the greatest of the execution times of exactly the results that
\* carry one, a time of 0 included; averageTestCount and totalTestsExecuted
\* are the rounded mean and the sum of the test counts of exactly the results
\* that carry one; a statistic is 0 when no result carries the field.
C20_CarriedFields ==
    response.kind = "performance" =>
        LET times == CarriedTimes(response.results)
            counts == CarriedCounts(response.results)
            n == Len(times)
            p == response.performance
        IN /\ n = 0 => /\ p.averageExecutionTime = 0
                       /\ p.medianExecutionTime = 0
                       /\ p.minExecutionTime = 0
                       /\ p.maxExecutionTime = 0
           /\ n > 0 => /\ IsRounded(p.averageExecutionTime, SumSeq(times), n)
                       /\ p.minExecutionTime = times[1]
                       /\ p.maxExecutionTime = times[n]
                       /\ IF n % 2 = 1
                          THEN p.medianExecutionTime = times[(n + 1) \div 2]
                          ELSE IsRounded(p.medianExecutionTime,
                                         times[n \div 2] + times[n \div 2 + 1], 2)
           /\ p.totalTestsExecuted = SumSeq(counts)
           /\ IF Len(counts) = 0 THEN p.averageTestCount = 0
              ELSE IsRounded(p.averageTestCount, SumSeq(counts), Len(counts))

\* ---------------------------------- calculatePatternMetrics on its own
\* The patterns of the i-th result: p1, and with it a pattern that has only
\* a type in every fourth result and a pattern with neither name nor type
\* in every other fourth.
PatternsAt(i) ==
    <<MkPattern("p1", "lint", "backend", 90)>>
    \o (IF i % 4 = 0 THEN <<MkPattern("", "t1", "", 50)>>
        ELSE IF i % 4 = 2 THEN <<MkPattern("", "", "frontend", NoNumber)>>
        ELSE <<>>)

\* A store of s successes, w warnings and f failures, in that order.
PatternFiles(s, w, f) ==
    [i \in 1..(s + w + f) |->
        MkFile(TRUE, TRUE, StartTime,
               MkRecord(i, ProjectAl, StartTime - DayMs + i,
                        OverviewStatus(i, s, w), NoNumber, NoNumber,
                        PatternsAt(i)))]

\* Names of patterns.
PatternNames ==
    <<"a", "b", "c", "d", "e", "f", "g", "h", "i", "j", "k", "l", "m",
      "n", "o", "p", "q", "r", "s", "t", "u", "v", "w", "x", "y", "z">>

\* The statuses of the four results of such a store: the first three differ.
RankStatuses ==
    {s \in [1..4 -> {"success", "failure", "warning"}] :
        s[1] # s[2] /\ s[1] # s[3] /\ s[2] # s[3]}

\* The j-th pattern is used by one to four of the four results, from one
\* result on that changes with every fourth pattern.
UsedIn(j, i) == (i - 1 - (j \div 4)) % 4 < 1 + (j % 4)

\* A store of four results with the given statuses that holds n patterns.
RankFiles(n, statuses) ==
    [i \in 1..4 |->
        MkFile(TRUE, TRUE, StartTime,
               MkRecord(i, ProjectAl, StartTime - DayMs + i, statuses[i],
                        NoNumber, NoNumber,
                        [k \in 1..Cardinality({j \in 1..n : UsedIn(j, i)}) |->
                            MkPattern(PatternNames[
                                CHOOSE j \in 1..n :
                                    /\ UsedIn(j, i)
                                    /\ Cardinality({m \in 1..j : UsedIn(m, i)}) = k],
                                "", "", 80)]))]

InitPatterns ==
    /\ now = StartTime
    /\ ticks = 0
    /\ files \in {PatternFiles(c[1], c[2], c[3]) :
                    c \in {d \in (0..MaxPatternUses) \X (0..MaxPatternUses)
                                    \X (0..MaxPatternFailures) :
                              d[1] + d[2] + d[3] \in 1..MaxPatternUses}}
               \cup {RankFiles(n, statuses) :
                        n \in 1..MaxRankedPatterns, statuses \in RankStatuses}
    /\ readable = TRUE
    /\ metricsCache = EmptyMap
    /\ started = 0
    /\ inflight = EmptyBag
    /\ response = NoResponse

\* overview and patterns of calculateQualityMetrics for the results of a
\* load.
PatternsOf(results, nowMs) ==
    [kind |-> "patterns", results |-> results,
     overview |-> calculateOverviewMetrics(results, nowMs),
     patterns |-> calculatePatternMetrics(results, LibraryStats)]

PatternsCall ==
    /\ started = 0
    /\ started' = 1
    /\ response' = PatternsOf(loadValidationResults(files, NoString, 0), now)
    /\ UNCHANGED <<now, ticks, files, readable, metricsCache, inflight>>

NextPatterns == PatternsCall

SpecPatterns == InitPatterns /\ [][NextPatterns]_vars

\* The key of a pattern as the claim words it.
KeyOfPattern(p) ==
    IF p.name # "" THEN p.name ELSE IF p.type # "" THEN p.type ELSE "unknown"

\* The occurrences <<i, j>> of a key in the pattern lists of the results, and
\* those in results of one status.
OccurrencesOf(results, key) ==
    {o \in UNION {{<<i, j>> : j \in 1..Len(results[i].patterns)} :
                      i \in 1..Len(results)} :
        KeyOfPattern(results[o[1]].patterns[o[2]]) = key}

OccurrencesWith(results, key, status) ==
    {o \in OccurrencesOf(results, key) : results[o[1]].status = status}

AllPatternKeys(results) ==
    UNION {{KeyOfPattern(results[i].patterns[j]) :
                j \in 1..Len(results[i].patterns)} : i \in 1..Len(results)}

\* C21. Every pattern key has one entry (patternUsage shows them all when
\* they are at most 20); its usage is the number of occurrences of the key,
\* its successes, failures and warnings are the occurrences in results of
\* that status, its effectiveness is 100 * (successes + warnings / 2) / usage
\* rounded and its successRate 100 * successes / usage rounded; 4 successes
\* and 1 failure give 80 and 80.
C21_PatternFold ==
    response.kind = "patterns" =>
        /\ response.patterns.totalPatterns
               = Cardinality(AllPatternKeys(response.results))
        /\ {response.patterns.patternUsage[k].name :
                k \in 1..Len(response.patterns.patternUsage)}
               \subseteq AllPatternKeys(response.results)
        /\ Len(response.patterns.patternUsage)
               = IF response.patterns.totalPatterns < 20
                 THEN response.patterns.totalPatterns ELSE 20
        /\ \A k, m \in 1..Len(response.patterns.patternUsage) :
               k # m => response.patterns.patternUsage[k].name
                           # response.patterns.patternUsage[m].name
        /\ \A k \in 1..Len(response.patterns.patternUsage) :
               LET p == response.patterns.patternUsage[k]
                   u == Cardinality(OccurrencesOf(response.results, p.name))
                   s == Cardinality(OccurrencesWith(response.results, p.name, "success"))
                   f == Cardinality(OccurrencesWith(response.results, p.name, "failure"))
                   w == Cardinality(OccurrencesWith(response.results, p.name, "warning"))
               IN /\ p.usage = u /\ p.successes = s
                  /\ p.failures = f /\ p.warnings = w
                  /\ IsRounded(p.effectiveness, 50 * (2 * s + w), u)
                  /\ IsRounded(p.successRate, 100 * s, u)
                  /\ (u = 5 /\ s = 4 /\ f = 1) =>
                         p.effectiveness = 80 /\ p.successRate = 80

\* The entry of every pattern of the results.
AllPatternStats(results) ==
    {PatternStatsOf(key, PatternOccurrences(results)) :
         key \in AllPatternKeys(results)}

\* ranking holds size of the entries of among, or all of them when they are
\* fewer, each once, and none of those left out comes before one it holds
\* or ties with it: Before(p, q) says that p has to come before q.
IsRanking(ranking, among, size, Before(_, _)) ==
    /\ Len(ranking) = IF Cardinality(among) < size THEN Cardinality(among)
                      ELSE size
    /\ \A k \in 1..Len(ranking) : ranking[k] \in among
    /\ \A k, m \in 1..Len(ranking) : k < m =>
           ranking[k] # ranking[m] /\ ~Before(ranking[m], ranking[k])
    /\ \A p \in among :
           (\A k \in 1..Len(ranking) : ranking[k] # p) =>
               \A k \in 1..Len(ranking) : ~Before(p, ranking[k])

MoreUsed(p, q) == p.usage > q.usage
MoreEffective(p, q) == p.effectiveness > q.effectiveness
LessEffective(p, q) == p.effectiveness < q.effectiveness

\* C22. patternUsage holds the 20 most used patterns (all when fewer) in
\* non-increasing order of usage, mostEffective the 10 of highest
\* effectiveness in non-increasing order of effectiveness, and
\* leastEffective the 5 of lowest effectiveness among the patterns used at
\* least 3 times, in non-decreasing order of effectiveness.
C22_PatternRankings ==
    response.kind = "patterns" =>
        LET all == AllPatternStats(response.results)
        IN /\ IsRanking(response.patterns.patternUsage, all, 20, MoreUsed)
           /\ IsRanking(response.patterns.mostEffective, all, 10, MoreEffective)
           /\ IsRanking(response.patterns.leastEffective,
                        {p \in all : p.usage >= 3}, 5, LessEffective)

\* More than 20 patterns, more than 5 of them used at least 3 times, and one
\* used less often that is less effective than all those of leastEffective.
C22_Witness ==
    /\ response.kind = "patterns"
    /\ response.patterns.totalPatterns > 20
    /\ Len(response.patterns.patternUsage) = 20
    /\ Len(response.patterns.mostEffective) = 10
    /\ Len(response.patterns.leastEffective) = 5
    /\ Cardinality({p \in AllPatternStats(response.results) : p.usage >= 3}) > 5
    /\ response.patterns.leastEffective[1].effectiveness
           < response.patterns.leastEffective[5].effectiveness
    /\ \E p \in AllPatternStats(response.results) :
           /\ p.usage < 3
           /\ p.effectiveness < response.patterns.leastEffective[1].effectiveness

\* ------------------------------------------- GET /patterns/effectiveness
\* Mutant of getEffectivenessGrade: the boundaries open on the lower side.
getEffectivenessGradeOpen(effectiveness) ==
    IF effectiveness > 90 THEN "excellent"
    ELSE IF effectiveness > 75 THEN "good"
    ELSE IF effectiveness > 60 THEN "fair"
    ELSE "poor"

getEffectivenessGrade(effectiveness) ==
    IF effectiveness >= 90 THEN "excellent"
    ELSE IF effectiveness >= 75 THEN "good"
    ELSE IF effectiveness >= 60 THEN "fair"
    ELSE "poor"

\* One entry of what getPatternUsageStats resolves with.
UsageStat(name, count, effectiveness) ==
    [name |-> name, count |-> count, effectiveness |-> effectiveness]

\* A request GET /effectiveness awaits getPatternUsageStats, which is about
\* to resolve with the statistics of two patterns: one of any effectiveness
\* used 2 or 3 times, and one used 5 times whose effectiveness lies just
\* below a boundary.
InitGrade ==
    /\ now = StartTime
    /\ ticks = 0
    /\ files = <<>>
    /\ readable = TRUE
    /\ metricsCache = EmptyMap
    /\ started = 1
    /\ \E effectiveness \in 0..100, count \in {2, 3}, below \in {59, 74, 89},
          sortBy \in {"effectiveness", "usage"} :
          inflight = SetToBag({[pc |-> "usage", minUsage |-> 3, sortBy |-> sortBy,
                                usageStats |-> <<UsageStat("p1", count, effectiveness),
                                                 UsageStat("p2", 5, below)>>]})
    /\ response = NoResponse

CountDescending(a, b) == b.count - a.count

\* { name, ...stats, effectivenessGrade }
Graded(stats) ==
    [i \in 1..Len(stats) |->
        stats[i] @@ [effectivenessGrade |->
                        getEffectivenessGrade(stats[i].effectiveness)]]

\* The part of the body of the reply that depends on the grades.
EffectivenessReply(effectivenessData) ==
    LET Of(grade) == LET HasGrade(p) == p.effectivenessGrade = grade
                     IN FilterSeq(effectivenessData, HasGrade)
    IN [kind |-> "effectiveness", patterns |-> effectivenessData,
        byGrade |-> [excellent |-> Of("excellent"), good |-> Of("good"),
                     fair |-> Of("fair"), poor |-> Of("poor")],
        total |-> Len(effectivenessData)]

\* await getPatternUsageStats(scope) resolves; the route filters, grades,
\* sorts, groups and replies.
GetEffectivenessDone ==
    /\ \E f \in Frames :
         /\ f.pc = "usage"
         /\ inflight' = inflight (-) SetToBag({f})
         /\ LET AtLeastMinUsage(s) == s.count >= f.minUsage
                graded == Graded(FilterSeq(f.usageStats, AtLeastMinUsage))
            IN response' = EffectivenessReply(
                               IF f.sortBy = "usage"
                               THEN SortBy(graded, CountDescending)
                               ELSE SortBy(graded, EffectivenessDescending))
    /\ UNCHANGED <<now, ticks, files, readable, metricsCache, started>>

NextGrade == GetEffectivenessDone

SpecGrade == InitGrade /\ [][NextGrade]_vars

\* C23. Every effectiveness from 90 on is graded excellent, from 75 to 89
\* good, from 60 to 74 fair and below 60 poor, and the reply groups the
\* patterns by that grade.
C23_GradeBoundaries ==
    response.kind = "effectiveness" =>
        /\ \A i \in 1..Len(response.patterns) :
               LET e == response.patterns[i].effectiveness
                   grade == response.patterns[i].effectivenessGrade
               IN /\ e >= 90 => grade = "excellent"
                  /\ e \in 75..89 => grade = "good"
                  /\ e \in 60..74 => grade = "fair"
                  /\ e < 60 => grade = "poor"
                  /\ \E k \in 1..Len(response.byGrade[grade]) :
                         response.byGrade[grade][k] = response.patterns[i]
        /\ Len(response.byGrade.excellent) + Len(response.byGrade.good)
               + Len(response.byGrade.fair) + Len(response.byGrade.poor)
               = Len(response.patterns)

\* A reply with a pattern of effectiveness 90 graded excellent and one of
\* effectiveness 89 graded good.
C23_Witness ==
    /\ response.kind = "effectiveness"
    /\ Len(response.patterns) = 2
    /\ response.patterns[1].effectiveness = 90
    /\ response.patterns[1].effectivenessGrade = "excellent"
    /\ response.patterns[2].effectiveness = 89
    /\ response.patterns[2].effectivenessGrade = "good"

\* C24. A call of calculateQualityMetrics that is suspended at a read of the
\* result store or of the pattern catalog has run no calculator yet: every
\* read is over before the first calculator runs.
C24_ReadsBeforeCalculators ==
    \A f \in Frames : f.calcs = 0

\* C25. A result without a project belongs to the project 'unknown': a load
\* filtered by 'unknown' returns it (when it parses and is not older than
\* the cutoff), and the comparative analysis groups it under 'unknown'.
C25_UnknownProject ==
    /\ (response.kind = "loaded" /\ response.projectName = UnknownName) =>
           \A i \in 1..Len(files) :
               (/\ files[i].isJson
                /\ files[i].parses
                /\ files[i].data.project = NoString
                /\ response.cutoffDate # 0 =>
                       RecordOf(i).timestamp >= response.cutoffDate)
               => \E j \in 1..Len(response.results) :
                      response.results[j] = RecordOf(i)
    /\ response.kind = "comparative" =>
           LET absent == {i \in 1..Len(response.results) :
                             response.results[i].project = NoString}
               listed == PositionsOf(response.comparative.projects, UnknownName)
           IN /\ Cardinality(absent) >= 5 => listed # {}
              /\ \A k \in listed :
                     response.comparative.projects[k].totalValidations
                         = Cardinality(absent)

\* ---------------------------------------------------------------------------
\* The health score before its floor.
\* ---------------------------------------------------------------------------

\* What an indicator of the health object took off the score.
AppliedDeduction(indicator) ==
    IF indicator.message = "Low success rate" THEN 70 - indicator.value
    ELSE IF indicator.message = "Quality trend is declining" THEN 15
    ELSE IF indicator.message = "Limited pattern diversity detected" THEN 5
    ELSE IF indicator.message = "Slow average validation time" THEN 10
    ELSE 0

\* 100 minus the deductions the indicators of a health object stand for.
ScoreBeforeFloor(health) ==
    100 - SumSeq([i \in 1..Len(health.indicators) |->
                     AppliedDeduction(health.indicators[i])])

\* All four deductions were applied.
AllDeductionsApplied(health) ==
    /\ Len(health.indicators) = 4
    /\ \A i \in 1..4 : AppliedDeduction(health.indicators[i]) > 0

C27_ClearNotUndone ==
    [][(/\ response.kind = "cleared"
        /\ response'.kind = "metrics"
        /\ \E f \in Frames : inflight' = inflight (-) SetToBag({f})) =>
           metricsCache' = metricsCache]_vars

\* C28: two requests share a cache entry only if they have the same project
\* filter and the same timeframe.  A snapshot served from the cache was
\* computed for the very project filter and timeframe of the request it is
\* served to; a request without a project filter and a request for a project
\* named 'global' are never served each other's snapshot.
C28_SharedOnlyIfSameRequest ==
    (response.kind = "metrics" /\ response.fromCache) =>
        /\ response.metrics.project = response.project
        /\ response.metrics.timeframe = response.timeframe

\* C29: a snapshot computation that fails because its record load raises
\* propagates the error to its caller and leaves the cache as it was before
\* the request.  Neither the step in which the call suspends at its load nor
\* the step in which the load rejects changes the cache: no entry is created
\* for the key, and an entry of that key is neither removed nor has its
\* timestamp refreshed.
C29_FailedLoadLeavesCache ==
    [][/\ (IsRequestStep /\ response'.kind # "metrics") =>
              metricsCache' = metricsCache
       /\ \A f \in Frames :
              (~readable /\ f.pc = "loading" /\ Settles(f)) =>
                  /\ response'.kind = "error"
                  /\ response'.project = f.project
                  /\ response'.timeframe = f.timeframe
                  /\ (FrameKey(f) \in DOMAIN metricsCache') =
                         (FrameKey(f) \in DOMAIN metricsCache)
                  /\ FrameKey(f) \in DOMAIN metricsCache =>
                         /\ metricsCache'[FrameKey(f)].timestamp =
                                metricsCache[FrameKey(f)].timestamp
                         /\ metricsCache'[FrameKey(f)].data =
                                metricsCache[FrameKey(f)].data
                  /\ metricsCache' = metricsCache]_vars

\* A call has just failed whose key has a stale entry, still in the cache.
C29_Witness ==
    /\ response.kind = "error"
    /\ KeyOf(response.project, response.timeframe) \in DOMAIN metricsCache
    /\ now - metricsCache[KeyOf(response.project, response.timeframe)].timestamp
           >= cacheTimeout

\* ---------------------------------------------------------------------------
\* The trend buckets and the requested window.
\* ---------------------------------------------------------------------------

\* The results a bucket's date range holds.
InBucket(results, bucket) ==
    {i \in 1..Len(results) : /\ bucket.dateRange.start <= results[i].timestamp
                              /\ results[i].timestamp < bucket.dateRange.end}

\* C30: for every timeframe of at least one day the trend buckets are
\* contiguous and pairwise disjoint and cover the window
\* [now - timeframe days, now): on results loaded with the cutoff of the
\* window, each result of the window is counted in exactly one bucket and the
\* buckets' totalValidations sum to the number of these results.
C30_BucketsCoverWindow ==
    (/\ response.kind = "trends"
     /\ \A i \in 1..Len(response.results) :
            response.results[i].timestamp >= now - response.timeframe * DayMs) =>
        LET trends == response.trends
            results == response.results
            inWindow == {i \in 1..Len(results) : results[i].timestamp < now}
        IN /\ \A k \in 2..Len(trends) :
                  trends[k].dateRange.start = trends[k - 1].dateRange.end
           /\ \A k \in 1..Len(trends) :
                  trends[k].dateRange.start < trends[k].dateRange.end
           /\ trends[1].dateRange.start <= now - response.timeframe * DayMs
           /\ trends[Len(trends)].dateRange.end >= now
           /\ \A i \in inWindow :
                  Cardinality({k \in 1..Len(trends) :
                                  i \in InBucket(results, trends[k])}) = 1
           /\ SumSeq([k \in 1..Len(trends) |-> trends[k].metrics.totalValidations])
                  = Cardinality(inWindow)

====
